---- MODULE Spec2Model ----
(***************************************************************************)
(* Model of the bcm2835 V4L2 codec driver                                  *)
(* (drivers/staging/vc04_services/bcm2835-codec/bcm2835-v4l2-codec.c):     *)
(* the format catalogue and geometry calculator, the try/set format        *)
(* negotiation, and the buffer exchange between the V4L2 mem2mem queues    *)
(* and the MMAL ports of the VPU.                                          *)
(*                                                                         *)
(* C "unsigned int"/"int" values are 32 bits wide.  A 32-bit word is kept  *)
(* as the integer with the same bit pattern in two's complement, i.e. in   *)
(* -2^31 .. 2^31-1; the operators below compute on those patterns.         *)
(***************************************************************************)
EXTENDS Integers, Sequences, FiniteSets, TLC

(* ---------------------------------------------------------------------- *)
(* 32-bit machine arithmetic                                               *)
(* ---------------------------------------------------------------------- *)
Two8 == 16 * 16
Two16 == Two8 * Two8
Two15 == Two16 \div 2

\* the 16-bit halves of a 32-bit pattern
Lo16(x) == x % Two16
Hi16(x) == (x \div Two16) % Two16

\* the 32-bit pattern made of two 16-bit halves
FromLimbs(h, l) == IF h >= Two15 THEN (h - Two16) * Two16 + l ELSE h * Two16 + l

\* x * y for 0 <= x, y < 2^16, as its low and high 16 bits
MulLoSum(x, y) == (((x \div Two8) * y) % Two8) * Two8 + (x % Two8) * y
MulLo16(x, y) == MulLoSum(x, y) % Two16
MulHi16(x, y) == (((x \div Two8) * y) \div Two8) + (MulLoSum(x, y) \div Two16)

\* INT_MAX
MaxS32 == (Two15 - 1) * Two16 + (Two16 - 1)

\* a * b truncated to 32 bits (C multiplication under -fno-strict-overflow);
\* the product is taken directly when it cannot overflow, by halves otherwise
mul32(a, b) ==
    IF a >= 0 /\ b >= 0 /\ (b = 0 \/ a <= MaxS32 \div b)
    THEN a * b
    ELSE FromLimbs((MulHi16(Lo16(a), Lo16(b)) + MulLo16(Hi16(a), Lo16(b))
                      + MulLo16(Lo16(a), Hi16(b))) % Two16,
                   MulLo16(Lo16(a), Lo16(b)))

\* a + b truncated to 32 bits
add32(a, b) ==
    IF a >= 0 /\ b >= 0 /\ a <= MaxS32 - b
    THEN a + b
    ELSE FromLimbs((Hi16(a) + Hi16(b) + ((Lo16(a) + Lo16(b)) \div Two16)) % Two16,
                   (Lo16(a) + Lo16(b)) % Two16)

\* unsigned comparison of two 32-bit patterns
ULt(a, b) == IF (a < 0) = (b < 0) THEN a < b ELSE b < 0
ULe(a, b) == a = b \/ ULt(a, b)

\* the kernel's ALIGN(x, a): ((x) + (a - 1)) & ~(a - 1) on 32 bits, for a a
\* power of two; a = 0 gives the mask 0xffffffff and the result 0
ALIGN(x, a) ==
    IF a = 0 THEN 0
    ELSE LET s == add32(x, a - 1)
         IN  IF s >= 0 THEN s - (s % a)
             ELSE FromLimbs(Hi16(s), Lo16(s) - (Lo16(s) % a))

(* ---------------------------------------------------------------------- *)
(* Roles, limits and the format catalogue                                  *)
(* ---------------------------------------------------------------------- *)
DECODE == 0
ENCODE == 1
ISP == 2
DEINTERLACE == 3
ENCODE_IMAGE == 4
NUM_ROLES == 5
Roles == 0 .. (NUM_ROLES - 1)

MIN_W == 32
MIN_H == 32
MAX_W_CODEC == 1920
MAX_H_CODEC == 1920
MAX_W_ISP == 16384
MAX_H_ISP == 16384
DEFAULT_WIDTH == 32
DEFAULT_HEIGHT == 32
DEF_COMP_BUF_SIZE_GREATER_720P == 768 * 1024
DEF_COMP_BUF_SIZE_720P_OR_LESS == 512 * 1024
DEF_COMP_BUF_SIZE_JPEG == 4096 * 1024

V4L2_FMT_FLAG_COMPRESSED == 1

V4L2_M2M_SRC == 0
V4L2_M2M_DST == 1

supported_formats == <<
    [fourcc |-> "YUV420", depth |-> 8, bytesperline_align |-> <<32, 64, 64, 32, 32>>,
     flags |-> 0, mmal_fmt |-> "I420", size_multiplier_x2 |-> 3, is_bayer |-> FALSE],
    [fourcc |-> "YVU420", depth |-> 8, bytesperline_align |-> <<32, 64, 64, 32, 32>>,
     flags |-> 0, mmal_fmt |-> "YV12", size_multiplier_x2 |-> 3, is_bayer |-> FALSE],
    [fourcc |-> "NV12", depth |-> 8, bytesperline_align |-> <<32, 32, 32, 32, 32>>,
     flags |-> 0, mmal_fmt |-> "NV12", size_multiplier_x2 |-> 3, is_bayer |-> FALSE],
    [fourcc |-> "NV21", depth |-> 8, bytesperline_align |-> <<32, 32, 32, 32, 32>>,
     flags |-> 0, mmal_fmt |-> "NV21", size_multiplier_x2 |-> 3, is_bayer |-> FALSE],
    [fourcc |-> "RGB565", depth |-> 16, bytesperline_align |-> <<32, 32, 32, 32, 32>>,
     flags |-> 0, mmal_fmt |-> "RGB16", size_multiplier_x2 |-> 2, is_bayer |-> FALSE],
    [fourcc |-> "YUYV", depth |-> 16, bytesperline_align |-> <<32, 32, 32, 32, 32>>,
     flags |-> 0, mmal_fmt |-> "YUYV", size_multiplier_x2 |-> 2, is_bayer |-> FALSE],
    [fourcc |-> "UYVY", depth |-> 16, bytesperline_align |-> <<32, 32, 32, 32, 32>>,
     flags |-> 0, mmal_fmt |-> "UYVY", size_multiplier_x2 |-> 2, is_bayer |-> FALSE],
    [fourcc |-> "YVYU", depth |-> 16, bytesperline_align |-> <<32, 32, 32, 32, 32>>,
     flags |-> 0, mmal_fmt |-> "YVYU", size_multiplier_x2 |-> 2, is_bayer |-> FALSE],
    [fourcc |-> "VYUY", depth |-> 16, bytesperline_align |-> <<32, 32, 32, 32, 32>>,
     flags |-> 0, mmal_fmt |-> "VYUY", size_multiplier_x2 |-> 2, is_bayer |-> FALSE],
    [fourcc |-> "NV12_COL128", depth |-> 8, bytesperline_align |-> <<32, 32, 32, 32, 32>>,
     flags |-> 0, mmal_fmt |-> "YUVUV128", size_multiplier_x2 |-> 3, is_bayer |-> FALSE],
    [fourcc |-> "RGB24", depth |-> 24, bytesperline_align |-> <<32, 32, 32, 32, 32>>,
     flags |-> 0, mmal_fmt |-> "RGB24", size_multiplier_x2 |-> 2, is_bayer |-> FALSE],
    [fourcc |-> "BGR24", depth |-> 24, bytesperline_align |-> <<32, 32, 32, 32, 32>>,
     flags |-> 0, mmal_fmt |-> "BGR24", size_multiplier_x2 |-> 2, is_bayer |-> FALSE],
    [fourcc |-> "BGR32", depth |-> 32, bytesperline_align |-> <<32, 32, 32, 32, 32>>,
     flags |-> 0, mmal_fmt |-> "BGRA", size_multiplier_x2 |-> 2, is_bayer |-> FALSE],
    [fourcc |-> "RGBA32", depth |-> 32, bytesperline_align |-> <<32, 32, 32, 32, 32>>,
     flags |-> 0, mmal_fmt |-> "RGBA", size_multiplier_x2 |-> 2, is_bayer |-> FALSE],
    [fourcc |-> "SRGGB8", depth |-> 8, bytesperline_align |-> <<32, 32, 32, 32, 32>>,
     flags |-> 0, mmal_fmt |-> "BAYER_SRGGB8", size_multiplier_x2 |-> 2, is_bayer |-> TRUE],
    [fourcc |-> "SBGGR8", depth |-> 8, bytesperline_align |-> <<32, 32, 32, 32, 32>>,
     flags |-> 0, mmal_fmt |-> "BAYER_SBGGR8", size_multiplier_x2 |-> 2, is_bayer |-> TRUE],
    [fourcc |-> "SGRBG8", depth |-> 8, bytesperline_align |-> <<32, 32, 32, 32, 32>>,
     flags |-> 0, mmal_fmt |-> "BAYER_SGRBG8", size_multiplier_x2 |-> 2, is_bayer |-> TRUE],
    [fourcc |-> "SGBRG8", depth |-> 8, bytesperline_align |-> <<32, 32, 32, 32, 32>>,
     flags |-> 0, mmal_fmt |-> "BAYER_SGBRG8", size_multiplier_x2 |-> 2, is_bayer |-> TRUE],
    [fourcc |-> "SRGGB10P", depth |-> 10, bytesperline_align |-> <<32, 32, 32, 32, 32>>,
     flags |-> 0, mmal_fmt |-> "BAYER_SRGGB10P", size_multiplier_x2 |-> 2, is_bayer |-> TRUE],
    [fourcc |-> "SBGGR10P", depth |-> 10, bytesperline_align |-> <<32, 32, 32, 32, 32>>,
     flags |-> 0, mmal_fmt |-> "BAYER_SBGGR10P", size_multiplier_x2 |-> 2, is_bayer |-> TRUE],
    [fourcc |-> "SGRBG10P", depth |-> 10, bytesperline_align |-> <<32, 32, 32, 32, 32>>,
     flags |-> 0, mmal_fmt |-> "BAYER_SGRBG10P", size_multiplier_x2 |-> 2, is_bayer |-> TRUE],
    [fourcc |-> "SGBRG10P", depth |-> 10, bytesperline_align |-> <<32, 32, 32, 32, 32>>,
     flags |-> 0, mmal_fmt |-> "BAYER_SGBRG10P", size_multiplier_x2 |-> 2, is_bayer |-> TRUE],
    [fourcc |-> "SRGGB12P", depth |-> 12, bytesperline_align |-> <<32, 32, 32, 32, 32>>,
     flags |-> 0, mmal_fmt |-> "BAYER_SRGGB12P", size_multiplier_x2 |-> 2, is_bayer |-> TRUE],
    [fourcc |-> "SBGGR12P", depth |-> 12, bytesperline_align |-> <<32, 32, 32, 32, 32>>,
     flags |-> 0, mmal_fmt |-> "BAYER_SBGGR12P", size_multiplier_x2 |-> 2, is_bayer |-> TRUE],
    [fourcc |-> "SGRBG12P", depth |-> 12, bytesperline_align |-> <<32, 32, 32, 32, 32>>,
     flags |-> 0, mmal_fmt |-> "BAYER_SGRBG12P", size_multiplier_x2 |-> 2, is_bayer |-> TRUE],
    [fourcc |-> "SGBRG12P", depth |-> 12, bytesperline_align |-> <<32, 32, 32, 32, 32>>,
     flags |-> 0, mmal_fmt |-> "BAYER_SGBRG12P", size_multiplier_x2 |-> 2, is_bayer |-> TRUE],
    [fourcc |-> "SRGGB14P", depth |-> 14, bytesperline_align |-> <<32, 32, 32, 32, 32>>,
     flags |-> 0, mmal_fmt |-> "BAYER_SRGGB14P", size_multiplier_x2 |-> 2, is_bayer |-> TRUE],
    [fourcc |-> "SBGGR14P", depth |-> 14, bytesperline_align |-> <<32, 32, 32, 32, 32>>,
     flags |-> 0, mmal_fmt |-> "BAYER_SBGGR14P", size_multiplier_x2 |-> 2, is_bayer |-> TRUE],
    [fourcc |-> "SGRBG14P", depth |-> 14, bytesperline_align |-> <<32, 32, 32, 32, 32>>,
     flags |-> 0, mmal_fmt |-> "BAYER_SGRBG14P", size_multiplier_x2 |-> 2, is_bayer |-> TRUE],
    [fourcc |-> "SGBRG14P", depth |-> 14, bytesperline_align |-> <<32, 32, 32, 32, 32>>,
     flags |-> 0, mmal_fmt |-> "BAYER_SGBRG14P", size_multiplier_x2 |-> 2, is_bayer |-> TRUE],
    [fourcc |-> "SRGGB16", depth |-> 16, bytesperline_align |-> <<32, 32, 32, 32, 32>>,
     flags |-> 0, mmal_fmt |-> "BAYER_SRGGB16", size_multiplier_x2 |-> 2, is_bayer |-> TRUE],
    [fourcc |-> "SBGGR16", depth |-> 16, bytesperline_align |-> <<32, 32, 32, 32, 32>>,
     flags |-> 0, mmal_fmt |-> "BAYER_SBGGR16", size_multiplier_x2 |-> 2, is_bayer |-> TRUE],
    [fourcc |-> "SGRBG16", depth |-> 16, bytesperline_align |-> <<32, 32, 32, 32, 32>>,
     flags |-> 0, mmal_fmt |-> "BAYER_SGRBG16", size_multiplier_x2 |-> 2, is_bayer |-> TRUE],
    [fourcc |-> "SGBRG16", depth |-> 16, bytesperline_align |-> <<32, 32, 32, 32, 32>>,
     flags |-> 0, mmal_fmt |-> "BAYER_SGBRG16", size_multiplier_x2 |-> 2, is_bayer |-> TRUE],
    [fourcc |-> "SRGGB10", depth |-> 16, bytesperline_align |-> <<32, 32, 32, 32, 32>>,
     flags |-> 0, mmal_fmt |-> "BAYER_SRGGB10", size_multiplier_x2 |-> 2, is_bayer |-> TRUE],
    [fourcc |-> "SBGGR10", depth |-> 16, bytesperline_align |-> <<32, 32, 32, 32, 32>>,
     flags |-> 0, mmal_fmt |-> "BAYER_SBGGR10", size_multiplier_x2 |-> 2, is_bayer |-> TRUE],
    [fourcc |-> "SGRBG10", depth |-> 16, bytesperline_align |-> <<32, 32, 32, 32, 32>>,
     flags |-> 0, mmal_fmt |-> "BAYER_SGRBG10", size_multiplier_x2 |-> 2, is_bayer |-> TRUE],
    [fourcc |-> "SGBRG10", depth |-> 16, bytesperline_align |-> <<32, 32, 32, 32, 32>>,
     flags |-> 0, mmal_fmt |-> "BAYER_SGBRG10", size_multiplier_x2 |-> 2, is_bayer |-> TRUE],
    [fourcc |-> "SRGGB12", depth |-> 16, bytesperline_align |-> <<32, 32, 32, 32, 32>>,
     flags |-> 0, mmal_fmt |-> "BAYER_SRGGB12", size_multiplier_x2 |-> 2, is_bayer |-> TRUE],
    [fourcc |-> "SBGGR12", depth |-> 16, bytesperline_align |-> <<32, 32, 32, 32, 32>>,
     flags |-> 0, mmal_fmt |-> "BAYER_SBGGR12", size_multiplier_x2 |-> 2, is_bayer |-> TRUE],
    [fourcc |-> "SGRBG12", depth |-> 16, bytesperline_align |-> <<32, 32, 32, 32, 32>>,
     flags |-> 0, mmal_fmt |-> "BAYER_SGRBG12", size_multiplier_x2 |-> 2, is_bayer |-> TRUE],
    [fourcc |-> "SGBRG12", depth |-> 16, bytesperline_align |-> <<32, 32, 32, 32, 32>>,
     flags |-> 0, mmal_fmt |-> "BAYER_SGBRG12", size_multiplier_x2 |-> 2, is_bayer |-> TRUE],
    [fourcc |-> "SRGGB14", depth |-> 16, bytesperline_align |-> <<32, 32, 32, 32, 32>>,
     flags |-> 0, mmal_fmt |-> "BAYER_SRGGB14", size_multiplier_x2 |-> 2, is_bayer |-> TRUE],
    [fourcc |-> "SBGGR14", depth |-> 16, bytesperline_align |-> <<32, 32, 32, 32, 32>>,
     flags |-> 0, mmal_fmt |-> "BAYER_SBGGR14", size_multiplier_x2 |-> 2, is_bayer |-> TRUE],
    [fourcc |-> "SGRBG14", depth |-> 16, bytesperline_align |-> <<32, 32, 32, 32, 32>>,
     flags |-> 0, mmal_fmt |-> "BAYER_SGRBG14", size_multiplier_x2 |-> 2, is_bayer |-> TRUE],
    [fourcc |-> "SGBRG14", depth |-> 16, bytesperline_align |-> <<32, 32, 32, 32, 32>>,
     flags |-> 0, mmal_fmt |-> "BAYER_SGBRG14", size_multiplier_x2 |-> 2, is_bayer |-> TRUE],
    [fourcc |-> "GREY", depth |-> 8, bytesperline_align |-> <<32, 32, 32, 32, 32>>,
     flags |-> 0, mmal_fmt |-> "GREY", size_multiplier_x2 |-> 2, is_bayer |-> FALSE],
    [fourcc |-> "Y10P", depth |-> 10, bytesperline_align |-> <<32, 32, 32, 32, 32>>,
     flags |-> 0, mmal_fmt |-> "Y10P", size_multiplier_x2 |-> 2, is_bayer |-> FALSE],
    [fourcc |-> "Y12P", depth |-> 12, bytesperline_align |-> <<32, 32, 32, 32, 32>>,
     flags |-> 0, mmal_fmt |-> "Y12P", size_multiplier_x2 |-> 2, is_bayer |-> FALSE],
    [fourcc |-> "Y14P", depth |-> 14, bytesperline_align |-> <<32, 32, 32, 32, 32>>,
     flags |-> 0, mmal_fmt |-> "Y14P", size_multiplier_x2 |-> 2, is_bayer |-> FALSE],
    [fourcc |-> "Y16", depth |-> 16, bytesperline_align |-> <<32, 32, 32, 32, 32>>,
     flags |-> 0, mmal_fmt |-> "Y16", size_multiplier_x2 |-> 2, is_bayer |-> FALSE],
    [fourcc |-> "Y10", depth |-> 16, bytesperline_align |-> <<32, 32, 32, 32, 32>>,
     flags |-> 0, mmal_fmt |-> "Y10", size_multiplier_x2 |-> 2, is_bayer |-> FALSE],
    [fourcc |-> "Y12", depth |-> 16, bytesperline_align |-> <<32, 32, 32, 32, 32>>,
     flags |-> 0, mmal_fmt |-> "Y12", size_multiplier_x2 |-> 2, is_bayer |-> FALSE],
    [fourcc |-> "Y14", depth |-> 16, bytesperline_align |-> <<32, 32, 32, 32, 32>>,
     flags |-> 0, mmal_fmt |-> "Y14", size_multiplier_x2 |-> 2, is_bayer |-> FALSE],
    [fourcc |-> "H264", depth |-> 0, bytesperline_align |-> <<0, 0, 0, 0, 0>>,
     flags |-> V4L2_FMT_FLAG_COMPRESSED, mmal_fmt |-> "H264", size_multiplier_x2 |-> 0, is_bayer |-> FALSE],
    [fourcc |-> "JPEG", depth |-> 0, bytesperline_align |-> <<0, 0, 0, 0, 0>>,
     flags |-> V4L2_FMT_FLAG_COMPRESSED, mmal_fmt |-> "JPEG", size_multiplier_x2 |-> 0, is_bayer |-> FALSE],
    [fourcc |-> "MJPEG", depth |-> 0, bytesperline_align |-> <<0, 0, 0, 0, 0>>,
     flags |-> V4L2_FMT_FLAG_COMPRESSED, mmal_fmt |-> "MJPEG", size_multiplier_x2 |-> 0, is_bayer |-> FALSE],
    [fourcc |-> "MPEG4", depth |-> 0, bytesperline_align |-> <<0, 0, 0, 0, 0>>,
     flags |-> V4L2_FMT_FLAG_COMPRESSED, mmal_fmt |-> "MP4V", size_multiplier_x2 |-> 0, is_bayer |-> FALSE],
    [fourcc |-> "H263", depth |-> 0, bytesperline_align |-> <<0, 0, 0, 0, 0>>,
     flags |-> V4L2_FMT_FLAG_COMPRESSED, mmal_fmt |-> "H263", size_multiplier_x2 |-> 0, is_bayer |-> FALSE],
    [fourcc |-> "MPEG2", depth |-> 0, bytesperline_align |-> <<0, 0, 0, 0, 0>>,
     flags |-> V4L2_FMT_FLAG_COMPRESSED, mmal_fmt |-> "MP2V", size_multiplier_x2 |-> 0, is_bayer |-> FALSE],
    [fourcc |-> "VC1_ANNEX_G", depth |-> 0, bytesperline_align |-> <<0, 0, 0, 0, 0>>,
     flags |-> V4L2_FMT_FLAG_COMPRESSED, mmal_fmt |-> "WVC1", size_multiplier_x2 |-> 0, is_bayer |-> FALSE]
>>

NumFormats == Len(supported_formats)

\* dev->max_w / dev->max_h as set by bcm2835_codec_create
max_w(role) == IF role = ISP THEN MAX_W_ISP ELSE MAX_W_CODEC
max_h(role) == IF role = ISP THEN MAX_H_ISP ELSE MAX_H_CODEC

IsCompressed(fmt) == fmt.flags = V4L2_FMT_FLAG_COMPRESSED

(* ---------------------------------------------------------------------- *)
(* Geometry calculator                                                     *)
(* ---------------------------------------------------------------------- *)
\* All arguments are C ints; ">> n" on an int is the arithmetic shift,
\* which is the floor division by 2^n.
get_sizeimage_tier_ge(bpl, width, height, fmt) ==
    IF IsCompressed(fmt)
    THEN IF fmt.fourcc = "JPEG" THEN DEF_COMP_BUF_SIZE_JPEG
         ELSE IF mul32(width, height) >= 1280 * 720
              THEN DEF_COMP_BUF_SIZE_GREATER_720P
              ELSE DEF_COMP_BUF_SIZE_720P_OR_LESS
    ELSE IF fmt.fourcc # "NV12_COL128"
         THEN mul32(mul32(bpl, height), fmt.size_multiplier_x2) \div 2
         ELSE mul32(ALIGN(width, 128), bpl)

get_sizeimage_tier_swapped(bpl, width, height, fmt) ==
    IF IsCompressed(fmt)
    THEN IF fmt.fourcc = "JPEG" THEN DEF_COMP_BUF_SIZE_JPEG
         ELSE IF mul32(width, height) > 1280 * 720
              THEN DEF_COMP_BUF_SIZE_720P_OR_LESS
              ELSE DEF_COMP_BUF_SIZE_GREATER_720P
    ELSE IF fmt.fourcc # "NV12_COL128"
         THEN mul32(mul32(bpl, height), fmt.size_multiplier_x2) \div 2
         ELSE mul32(ALIGN(width, 128), bpl)

get_sizeimage(bpl, width, height, fmt) ==
    IF IsCompressed(fmt)
    THEN IF fmt.fourcc = "JPEG" THEN DEF_COMP_BUF_SIZE_JPEG
         ELSE IF mul32(width, height) > 1280 * 720
              THEN DEF_COMP_BUF_SIZE_GREATER_720P
              ELSE DEF_COMP_BUF_SIZE_720P_OR_LESS
    ELSE IF fmt.fourcc # "NV12_COL128"
         THEN mul32(mul32(bpl, height), fmt.size_multiplier_x2) \div 2
         ELSE mul32(ALIGN(width, 128), bpl)

get_bytesperline(width, height, fmt, role) ==
    IF fmt.fourcc # "NV12_COL128"
    THEN ALIGN(mul32(width, fmt.depth) \div 8, fmt.bytesperline_align[role + 1])
    ELSE mul32(height, 3) \div 2

(* ---------------------------------------------------------------------- *)
(* State                                                                   *)
(* ---------------------------------------------------------------------- *)
VARIABLES
    geom,       \* geometry calculator under test: inputs and values computed
    role,       \* dev->role
    q_data,     \* ctx->q_data[V4L2_M2M_SRC], ctx->q_data[V4L2_M2M_DST]
    ctx,        \* ctx->colorspace, xfer_func, ycbcr_enc, quant
    component,  \* ctx->component != NULL
    port,       \* component->input[0] (SRC) and output[0] (DST)
    busy,       \* vb2_is_busy() of the two client queues
    streaming,  \* vb2_is_streaming() of the two client queues
    last,       \* the last negotiation operation: request, result, return
    evt,        \* crop height carried by the last format-changed event, while
                \* only format negotiation on the capture queue followed it
    hdr,        \* header conversion under test: client header, MMAL header
    vb,         \* state of each client buffer in the queue framework
    rdy,        \* the mem2mem ready queues of the two directions
    with_vpu,   \* buffers in flight on each port (port->buffers_with_vpu)
    frame_cmplt,        \* ctx->frame_cmplt: completions not yet consumed
    th,         \* the configuration thread inside start/stop_streaming
    component_enabled,  \* ctx->component_enabled
    eos_buffer, \* the MMAL part of q_data[V4L2_M2M_SRC].eos_buffer
    eos,        \* q_data[V4L2_M2M_SRC].eos_buffer_in_use and the submissions
                \* of the end-of-stream buffer the VPU has not returned
    cb,         \* the callback context inside handle_fmt_changed
    aborting,   \* ctx->aborting
    dev_mutex,  \* dev->dev_mutex, the lock of the video device and both queues
    job         \* what the last scheduler call or event callback did

geomVars == <<geom>>
devVars == <<role, component, port, busy, streaming>>
negVars == <<q_data, ctx, last, evt>>
jobVars == <<aborting, dev_mutex, job>>
xchVars == <<hdr, vb, rdy, with_vpu, frame_cmplt, th, component_enabled,
            eos_buffer, eos, cb, aborting, dev_mutex, job>>
vars == <<geom, role, q_data, ctx, component, port, busy, streaming, last, evt,
          hdr, vb, rdy, with_vpu, frame_cmplt, th, component_enabled,
          eos_buffer, eos, cb, aborting, dev_mutex, job>>

(* ---------------------------------------------------------------------- *)
(* Format negotiation                                                      *)
(* ---------------------------------------------------------------------- *)
QTypes == {V4L2_M2M_SRC, V4L2_M2M_DST}

\* catalogue index of a fourcc
FmtIndex(fourcc) ==
    CHOOSE i \in 1 .. NumFormats : supported_formats[i].fourcc = fourcc

\* dev->supported_fmts[capture]: the catalogue entries whose encoding the
\* VPU component of the role lists on its input (SRC) and output (DST) port
supported_fmts ==
    [r \in Roles |->
        IF r = DECODE
        THEN <<  <<FmtIndex("H264"), FmtIndex("MJPEG")>>,
                 <<FmtIndex("YUV420"), FmtIndex("NV12_COL128")>>  >>
        ELSE IF r = ENCODE
        THEN <<  <<FmtIndex("YUV420"), FmtIndex("BGR32")>>,
                 <<FmtIndex("H264")>>  >>
        ELSE IF r = ISP
        THEN <<  <<FmtIndex("YUV420"), FmtIndex("SRGGB10P")>>,
                 <<FmtIndex("YUV420"), FmtIndex("BGR32")>>  >>
        ELSE IF r = DEINTERLACE
        THEN <<  <<FmtIndex("YUV420")>>,
                 <<FmtIndex("YUV420")>>  >>
        ELSE <<  <<FmtIndex("YUV420"), FmtIndex("BGR32")>>,
                 <<FmtIndex("JPEG")>>  >>]

get_format_list(r, d) == supported_fmts[r][d + 1]

get_default_format(r, d) == get_format_list(r, d)[1]

\* the catalogue index of the list entry with that fourcc, 0 for NULL
find_format(pixelformat, r, d) ==
    LET fmts == get_format_list(r, d)
        hit == {k \in 1 .. Len(fmts) : supported_formats[fmts[k]].fourcc = pixelformat}
    IN  IF hit = {} THEN 0
        ELSE fmts[CHOOSE k \in hit : \A j \in hit : k <= j]

\* unsigned division of a 32-bit pattern by a number b >= 2
UDiv(a, b) ==
    IF a >= 0 THEN a \div b
    ELSE LET h == (a \div 2) + MaxS32 + 1
         IN  2 * (h \div b) + ((2 * (h % b) + (a % 2)) \div b)

\* the steps of vidioc_try_fmt: width and height clamped to the device
\* bounds (and, for a raw format, to the minimum and the 16-line alignment)
try_fmt_width(r, f, fmt) ==
    IF ULt(max_w(r), f.width) THEN max_w(r)
    ELSE IF ~IsCompressed(fmt) /\ ULt(f.width, MIN_W) THEN MIN_W
    ELSE f.width

try_fmt_clamp_height(r, f, fmt) ==
    IF ULt(max_h(r), f.height) THEN max_h(r)
    ELSE IF ~IsCompressed(fmt) /\ ULt(f.height, MIN_H) THEN MIN_H
    ELSE f.height

try_fmt_height(r, f, fmt) ==
    IF ~IsCompressed(fmt) /\ r \in {DECODE, ENCODE_IMAGE}
    THEN ALIGN(try_fmt_clamp_height(r, f, fmt), 16)
    ELSE try_fmt_clamp_height(r, f, fmt)

\* the kernel's max() on two unsigned ints
UMax(a, b) == IF ULt(a, b) THEN b ELSE a

try_fmt_bytesperline(r, f, fmt, width, height) ==
    ALIGN(UMax(f.bytesperline, get_bytesperline(width, height, fmt, r)),
          fmt.bytesperline_align[r + 1])

try_fmt_sizeimage(f, fmt, sizeimage) ==
    IF ~IsCompressed(fmt) \/ ULt(f.sizeimage, sizeimage)
    THEN sizeimage ELSE f.sizeimage

try_fmt_field(r, f) ==
    IF r \in {DECODE, DEINTERLACE}
    THEN IF f.field = "INTERLACED" THEN "INTERLACED"
         ELSE IF f.field \in {"TOP", "BOTTOM", "INTERLACED_TB"}
              THEN "INTERLACED_TB"
         ELSE IF f.field = "INTERLACED_BT" THEN "INTERLACED_BT"
         ELSE "NONE"
    ELSE "NONE"

try_fmt_result(r, f, fmt, width, height, bytesperline) ==
    [f EXCEPT !.width = width, !.height = height,
              !.bytesperline = bytesperline,
              !.sizeimage = try_fmt_sizeimage(f, fmt,
                                get_sizeimage(bytesperline, width, height, fmt)),
              !.field = try_fmt_field(r, f)]

try_fmt_geometry(r, f, fmt, width, height) ==
    try_fmt_result(r, f, fmt, width, height,
                   try_fmt_bytesperline(r, f, fmt, width, height))

vidioc_try_fmt(r, f, fmt) ==
    try_fmt_geometry(r, f, fmt, try_fmt_width(r, f, fmt), try_fmt_height(r, f, fmt))

\* the fourcc after the fallback to the default format of the queue
try_pixelformat(r, d, f) ==
    IF find_format(f.pixelformat, r, d) = 0
    THEN supported_formats[get_default_format(r, d)].fourcc
    ELSE f.pixelformat

vidioc_try_fmt_vid_cap(r, f) ==
    LET f1 == [f EXCEPT !.pixelformat = try_pixelformat(r, V4L2_M2M_DST, f)]
    IN  vidioc_try_fmt(r, f1,
            supported_formats[find_format(f1.pixelformat, r, V4L2_M2M_DST)])

vidioc_try_fmt_vid_out(r, c, f) ==
    LET f1 == [f EXCEPT !.pixelformat = try_pixelformat(r, V4L2_M2M_SRC, f),
                        !.colorspace = IF f.colorspace = "DEFAULT"
                                       THEN c.colorspace ELSE f.colorspace]
    IN  vidioc_try_fmt(r, f1,
            supported_formats[find_format(f1.pixelformat, r, V4L2_M2M_SRC)])

try_fmt_vid(r, c, d, f) ==
    IF d = V4L2_M2M_DST THEN vidioc_try_fmt_vid_cap(r, f)
    ELSE vidioc_try_fmt_vid_out(r, c, f)

\* the state of a queue and of the colorimetry when the session opens
open_q_data(r, d) ==
    LET fmt == get_default_format(r, d)
        bpl == get_bytesperline(DEFAULT_WIDTH, DEFAULT_HEIGHT,
                                supported_formats[fmt], r)
    IN  [fmt |-> fmt,
         crop_width |-> DEFAULT_WIDTH, crop_height |-> DEFAULT_HEIGHT,
         height |-> DEFAULT_HEIGHT,
         bytesperline |-> bpl,
         sizeimage |-> get_sizeimage(bpl, DEFAULT_WIDTH, DEFAULT_HEIGHT,
                                     supported_formats[fmt]),
         field |-> "NONE",
         selection_set |-> FALSE,
         aspect_ratio |-> IF d = V4L2_M2M_DST THEN <<1, 1>> ELSE <<0, 0>>]

open_ctx ==
    [colorspace |-> "REC709", xfer_func |-> "DEFAULT",
     ycbcr_enc |-> "DEFAULT", quant |-> "DEFAULT"]

\* what setup_mmal_port_format writes into the port from a queue state
setup_mmal_port_format(r, q) ==
    LET fmt == supported_formats[q.fmt]
    IN  IF ~IsCompressed(fmt)
        THEN [encoding |-> fmt.mmal_fmt,
              width |-> IF fmt.mmal_fmt # "YUVUV128"
                        THEN UDiv(mul32(q.bytesperline, 8), fmt.depth)
                        ELSE q.bytesperline,
              height |-> q.height,
              crop_width |-> q.crop_width, crop_height |-> q.crop_height,
              size |-> q.sizeimage]
        ELSE IF r = DECODE
        THEN [encoding |-> fmt.mmal_fmt, width |-> 0, height |-> 0,
              crop_width |-> 0, crop_height |-> 0, size |-> q.sizeimage]
        ELSE [encoding |-> fmt.mmal_fmt,
              width |-> q.crop_width, height |-> q.height,
              crop_width |-> q.crop_width, crop_height |-> q.crop_height,
              size |-> q.sizeimage]

(* ---------------------------------------------------------------------- *)
(* MMAL port service (vchiq-mmal), as far as the driver relies on it       *)
(* ---------------------------------------------------------------------- *)
\* minimum_buffer.num of a port, and the buffer count the VPU holds for a
\* port whose count the driver never committed
PortMinNum == 1

\* a port of a freshly created component
new_port(r, q) ==
    [enabled |-> FALSE, num |-> PortMinNum, es |-> setup_mmal_port_format(r, q)]

\* vchiq_mmal_port_disable: the port is disabled and its format re-read
\* from the VPU, which resets the buffer count
vchiq_mmal_port_disable(p) == [p EXCEPT !.enabled = FALSE, !.num = PortMinNum]

vchiq_mmal_port_enable(p) == [p EXCEPT !.enabled = TRUE]

(* ---------------------------------------------------------------------- *)
(* Negotiation operations                                                  *)
(* ---------------------------------------------------------------------- *)
\* errno values returned to the client
EBUSY == 16
EINVAL == 22

\* vb2_is_busy on the queue of direction d: buffers are allocated
vb2_is_busy_never(bz, d) == FALSE

vb2_is_busy(bz, d) == bz[d]

\* lines 1628-1630 of vidioc_s_fmt: the crop height a set-format stores
s_fmt_crop_height_always(q, fmt, requested_height) == requested_height

s_fmt_crop_height(q, fmt, requested_height) ==
    IF ~q.selection_set \/ IsCompressed(fmt) THEN requested_height
    ELSE q.crop_height

\* line 1625 of vidioc_s_fmt: the crop width a set-format stores
s_fmt_crop_width_kept(q, f) == IF q.selection_set THEN q.crop_width ELSE f.width

s_fmt_crop_width(q, f) == f.width

\* line 1645 of vidioc_s_fmt: the buffer size a set-format stores
s_fmt_sizeimage_accumulated(q, f) == add32(q.sizeimage, f.sizeimage)

s_fmt_sizeimage(q, f) == f.sizeimage

\* the queue state vidioc_s_fmt stores from the tried format f
s_fmt_q_data(r, d, q, f, requested_height) ==
    LET fmt == find_format(f.pixelformat, r, d)
    IN  [q EXCEPT !.fmt = fmt,
                  !.crop_width = s_fmt_crop_width(q, f),
                  !.height = f.height,
                  !.crop_height = s_fmt_crop_height(q, supported_formats[fmt],
                                                    requested_height),
                  !.field = f.field,
                  !.bytesperline = f.bytesperline,
                  !.sizeimage = s_fmt_sizeimage(q, f)]

\* vidioc_s_fmt replicates a resolution given on a compressed input
update_capture_port(r, q) ==
    /\ r \in {DECODE, ENCODE_IMAGE}
    /\ IsCompressed(supported_formats[q.fmt])
    /\ q.crop_width # 0
    /\ q.height # 0

\* the capture queue state after that replication
s_fmt_q_data_dst(r, q, q_dst, f) ==
    LET fmt == supported_formats[q_dst.fmt]
        height == ALIGN(q.crop_height, 16)
        bpl == get_bytesperline(f.width, f.height, fmt, r)
    IN  [q_dst EXCEPT !.crop_width = q.crop_width,
                      !.crop_height = q.crop_height,
                      !.height = height,
                      !.bytesperline = bpl,
                      !.sizeimage = get_sizeimage(bpl, q.crop_width, height, fmt)]

\* the port operations of a request that touched no port
NoTrace == [ops |-> <<>>, states |-> <<>>]

\* stride and size of both queues
Geometry(qd) ==
    <<qd[V4L2_M2M_SRC].bytesperline, qd[V4L2_M2M_SRC].sizeimage,
      qd[V4L2_M2M_DST].bytesperline, qd[V4L2_M2M_DST].sizeimage>>

\* VIDIOC_TRY_FMT on queue d with request f0
TryFmt(d, f0) ==
    /\ last' = [op |-> "try_fmt", type |-> d, ret |-> 0, req |-> <<>>,
                repeat |-> FALSE, old |-> <<>>,
                trace |-> NoTrace, out |-> <<>>]
    /\ UNCHANGED <<geom, devVars, q_data, ctx, evt, xchVars>>

\* both queue states after vidioc_s_fmt stored q on queue d
s_fmt_queues(r, d, qd, q, f) ==
    IF update_capture_port(r, q)
    THEN [qd EXCEPT ![d] = q,
                    ![V4L2_M2M_DST] =
                        s_fmt_q_data_dst(r, q, IF d = V4L2_M2M_DST THEN q
                                               ELSE qd[V4L2_M2M_DST], f)]
    ELSE [qd EXCEPT ![d] = q]

\* lines 1685-1734 of vidioc_s_fmt: the operations on the port of the
\* queue, in order; "restore" is the write of the retained buffer count
s_fmt_port_ops_no_restore(p) ==
    IF p.enabled THEN <<"disable", "set_format", "enable">>
    ELSE <<"set_format">>

s_fmt_port_ops(p) ==
    IF p.enabled THEN <<"disable", "restore", "set_format", "enable">>
    ELSE <<"set_format">>

\* the port after one of these operations; num is the retained count and q
\* the queue state the format is set up from
s_fmt_port_step(r, p, q, num, op) ==
    IF op = "disable" THEN vchiq_mmal_port_disable(p)
    ELSE IF op = "restore" THEN [p EXCEPT !.num = num]
    ELSE IF op = "set_format" THEN [p EXCEPT !.es = setup_mmal_port_format(r, q)]
    ELSE vchiq_mmal_port_enable(p)

\* the states of the port: before the first operation and after each one
RECURSIVE s_fmt_port_run(_, _, _, _, _)
s_fmt_port_run(r, p, q, num, ops) ==
    IF ops = <<>> THEN <<p>>
    ELSE <<p>> \o s_fmt_port_run(r, s_fmt_port_step(r, p, q, num, Head(ops)),
                                 q, num, Tail(ops))

\* the operations with the enabled state and the buffer count of the port
\* before the first one and after each one
s_fmt_trace(r, p, q) ==
    [ops |-> s_fmt_port_ops(p),
     states |-> [i \in 1 .. Len(s_fmt_port_ops(p)) + 1 |->
                   [enabled |-> s_fmt_port_run(r, p, q, p.num,
                                               s_fmt_port_ops(p))[i].enabled,
                    num |-> s_fmt_port_run(r, p, q, p.num,
                                           s_fmt_port_ops(p))[i].num]]]

\* the port of queue d after vidioc_s_fmt: an enabled port is disabled with
\* its buffer count retained, and re-enabled after the format is set
s_fmt_port(r, p, q) ==
    s_fmt_port_run(r, p, q, p.num, s_fmt_port_ops(p))[Len(s_fmt_port_ops(p)) + 1]

s_fmt_ports(r, d, pt, qd, upd) ==
    IF upd
    THEN [pt EXCEPT ![d] = s_fmt_port(r, pt[d], qd[d]),
                    ![V4L2_M2M_DST].es =
                        setup_mmal_port_format(r, qd[V4L2_M2M_DST])]
    ELSE [pt EXCEPT ![d] = s_fmt_port(r, pt[d], qd[d])]

\* the value vidioc_s_fmt returns: ok[1] and ok[2] are the results of the
\* VPU for the format push on the port of the queue and on the output port
s_fmt_ret(has_component, reenable_port, upd, ok) ==
    IF ~has_component THEN 0
    ELSE IF upd THEN (IF ok[2] THEN 0 ELSE -EINVAL)
    ELSE IF reenable_port THEN 0
    ELSE IF ok[1] THEN 0 ELSE -EINVAL

\* VIDIOC_S_FMT on queue d with request f0: vidioc_s_fmt_vid_cap/_out and
\* vidioc_s_fmt
SFmt(d, f0, ok) ==
    \E f \in {try_fmt_vid(role, ctx, d, f0)} :
    \E q \in {s_fmt_q_data(role, d, q_data[d], f, f0.height)} :
    \E upd \in {update_capture_port(role, q)} :
    \E same \in {last.op = "s_fmt" /\ last.ret # -EBUSY /\ last.type = d
                   /\ last.req = f0} :
        IF vb2_is_busy(busy, d)
        THEN /\ last' = [op |-> "s_fmt", type |-> d, ret |-> -EBUSY, req |-> f0,
                         repeat |-> FALSE, old |-> <<>>,
                trace |-> NoTrace, out |-> <<>>]
             /\ UNCHANGED <<geom, devVars, q_data, ctx, evt, xchVars>>
        ELSE /\ q_data' = s_fmt_queues(role, d, q_data, q, f)
             /\ ctx' = [colorspace |-> f.colorspace, xfer_func |-> f.xfer_func,
                        ycbcr_enc |-> f.ycbcr_enc, quant |-> f.quantization]
             /\ port' = IF component
                        THEN s_fmt_ports(role, d, port, q_data', upd)
                        ELSE port
             /\ last' = [op |-> "s_fmt", type |-> d,
                         ret |-> s_fmt_ret(component, port[d].enabled, upd, ok),
                         req |-> f0, repeat |-> same,
                         old |-> IF same THEN Geometry(q_data) ELSE <<>>,
                         trace |-> IF component
                                   THEN s_fmt_trace(role, port[d], q_data'[d])
                                   ELSE NoTrace,
                         out |-> <<>>]
             /\ evt' = IF d = V4L2_M2M_DST /\ ~IsCompressed(supported_formats[q.fmt])
                       THEN evt ELSE 0
             /\ UNCHANGED <<geom, role, component, busy, streaming, xchVars>>

\* V4L2_MAP_XFER_FUNC_DEFAULT, V4L2_MAP_YCBCR_ENC_DEFAULT and
\* V4L2_MAP_QUANTIZATION_DEFAULT on the colorspaces color_mmal2v4l produces
color_mmal2v4l(c, encoding, color_space) ==
    LET yuv == encoding \in {"I420", "YV12", "NV12", "NV21",
                             "YUYV", "YVYU", "UYVY", "VYUY"}
        colorspace == IF yuv
                      THEN IF color_space = "ITUR_BT601" THEN "SMPTE170M"
                           ELSE IF color_space = "ITUR_BT709" THEN "REC709"
                           ELSE c.colorspace
                      ELSE "SRGB"
    IN  [colorspace |-> colorspace,
         xfer_func |-> IF colorspace = "SRGB" THEN "SRGB" ELSE "709",
         ycbcr_enc |-> IF colorspace = "REC709" THEN "709" ELSE "601",
         quant |-> IF colorspace = "SRGB" THEN "FULL_RANGE" ELSE "LIM_RANGE"]

\* the capture queue state after a format-changed event e
handle_fmt_changed(r, q, e) ==
    [q EXCEPT !.crop_width = e.crop_width,
              !.crop_height = e.crop_height,
              !.selection_set = TRUE,
              !.bytesperline = get_bytesperline(e.width, e.height,
                                                supported_formats[q.fmt], r),
              !.height = e.height,
              !.sizeimage = e.buffer_size_min,
              !.aspect_ratio = e.par,
              !.field = IF e.interlace = "UPPER_FIRST" THEN "INTERLACED_TB"
                        ELSE IF e.interlace = "LOWER_FIRST" THEN "INTERLACED_BT"
                        ELSE "NONE"]

\* format-changed events the VPU sends: interlace is the mode the
\* interlace-type query returns, "error" when the query fails
FmtEvents ==
    {[video |-> TRUE, encoding |-> "I420", width |-> 1920, height |-> 1088,
      crop_width |-> 1920, crop_height |-> 1080, buffer_size_min |-> 3133440,
      color_space |-> "ITUR_BT709", par |-> <<1, 1>>, interlace |-> "PROGRESSIVE"],
     [video |-> FALSE, encoding |-> "I420", width |-> 64, height |-> 48,
      crop_width |-> 60, crop_height |-> 40, buffer_size_min |-> 4608,
      color_space |-> "UNKNOWN", par |-> <<1, 1>>, interlace |-> "error"]}

\* op_buffer_cb for a buffer carrying MMAL_EVENT_FORMAT_CHANGED
FmtChanged(e) ==
    /\ component
    /\ port[V4L2_M2M_DST].enabled
    /\ IF e.video
       THEN /\ q_data' = [q_data EXCEPT ![V4L2_M2M_DST] =
                            handle_fmt_changed(role, q_data[V4L2_M2M_DST], e)]
            /\ ctx' = IF e.color_space # "UNKNOWN"
                      THEN color_mmal2v4l(ctx, e.encoding, e.color_space)
                      ELSE ctx
            /\ evt' = e.crop_height
       ELSE UNCHANGED <<q_data, ctx, evt>>
    /\ last' = [op |-> "fmt_changed", type |-> V4L2_M2M_DST, ret |-> 0,
                req |-> <<>>, repeat |-> FALSE, old |-> <<>>,
                trace |-> NoTrace, out |-> <<>>]
    /\ UNCHANGED <<geom, devVars, xchVars>>

\* the kernel's min() on two unsigned ints
UMin(a, b) == IF ULt(b, a) THEN b ELSE a

\* whether vidioc_s_selection accepts the queue type and target for the role
s_selection_valid(r, d, target) ==
    /\ ~(d = V4L2_M2M_DST /\ r \in {ENCODE, ENCODE_IMAGE})
    /\ ~(d = V4L2_M2M_SRC /\ r = DECODE)
    /\ target = IF d = V4L2_M2M_DST THEN "COMPOSE" ELSE "CROP"

\* the rectangle vidioc_s_selection accepts for a requested width x height
s_selection_rect(q, width, height) ==
    <<UMin(width, q.crop_width), UMin(height, q.height)>>

\* rectangles clients select
SelRects == {<<16, 16>>}

\* VIDIOC_S_SELECTION on queue d; ok is the result of the VPU for the push
SSelection(d, target, rect, ok) ==
    LET valid == s_selection_valid(role, d, target)
        r == s_selection_rect(q_data[d], rect[1], rect[2])
        q == [q_data[d] EXCEPT !.crop_width = r[1], !.crop_height = r[2],
                               !.selection_set = TRUE]
    IN  /\ q_data' = IF valid THEN [q_data EXCEPT ![d] = q] ELSE q_data
        /\ port' = IF valid /\ component
                   THEN [port EXCEPT ![d].es = setup_mmal_port_format(role, q)]
                   ELSE port
        /\ last' = [op |-> "s_selection", type |-> d,
                    ret |-> IF ~valid \/ (component /\ ~ok) THEN -EINVAL ELSE 0,
                    req |-> <<target, rect[1], rect[2]>>,
                    repeat |-> FALSE, old |-> <<>>, trace |-> NoTrace,
                    out |-> IF valid THEN <<0, 0, r[1], r[2]>> ELSE <<>>]
        /\ evt' = 0
        /\ UNCHANGED <<geom, role, component, busy, streaming, ctx, xchVars>>

\* selection targets clients name
SelTargets == {"CROP", "CROP_BOUNDS", "COMPOSE", "COMPOSE_BOUNDS"}

\* the rectangle vidioc_g_selection returns for a target of queue d, as
\* <<left, top, width, height>>; <<>> when it returns -EINVAL
g_selection_rect(r, d, q, target) ==
    IF (d = V4L2_M2M_DST /\ r \in {ENCODE, ENCODE_IMAGE})
          \/ (d = V4L2_M2M_SRC /\ r = DECODE)
    THEN <<>>
    ELSE IF d = V4L2_M2M_DST
    THEN IF target \in {"COMPOSE_DEFAULT", "COMPOSE", "COMPOSE_BOUNDS"}
         THEN <<0, 0, q.crop_width, q.crop_height>>
         ELSE IF r = DECODE /\ target \in {"CROP_BOUNDS", "CROP_DEFAULT"}
         THEN <<0, 0, UDiv(mul32(q.bytesperline, 8),
                           supported_formats[q.fmt].depth), q.height>>
         ELSE <<>>
    ELSE IF target \in {"CROP_DEFAULT", "CROP_BOUNDS"}
         THEN <<0, 0, q.bytesperline, q.height>>
         ELSE IF target = "CROP"
         THEN <<0, 0, q.crop_width, q.crop_height>>
         ELSE <<>>

\* VIDIOC_G_SELECTION on queue d
GSelection(d, target) ==
    /\ last' = [op |-> "g_selection", type |-> d,
                ret |-> IF g_selection_rect(role, d, q_data[d], target) = <<>>
                        THEN -EINVAL ELSE 0,
                req |-> <<target>>, repeat |-> FALSE, old |-> <<>>,
                trace |-> NoTrace,
                out |-> g_selection_rect(role, d, q_data[d], target)]
    /\ UNCHANGED <<geom, devVars, q_data, ctx, evt, xchVars>>

(* ---------------------------------------------------------------------- *)
(* Buffer header conversion                                                *)
(* ---------------------------------------------------------------------- *)
\* vb2_to_mmal_buffer: the MMAL header made from a client buffer header
vb2_eos_only_when_empty(v) == v.bytesused = 0

vb2_eos(v) == v.bytesused = 0 \/ "LAST" \in v.flags

mmal_field_flags(field, override) ==
    IF (IF override # "ANY" THEN override ELSE field) = "INTERLACED_BT"
    THEN {"INTERLACED"}
    ELSE IF (IF override # "ANY" THEN override ELSE field) = "INTERLACED_TB"
    THEN {"INTERLACED", "TOP_FIELD_FIRST"}
    ELSE {}

vb2_to_mmal_buffer(v, override) ==
    [mmal_flags |-> (IF "KEYFRAME" \in v.flags THEN {"KEYFRAME"} ELSE {})
                    \cup {"FRAME_END"}
                    \cup (IF vb2_eos(v) THEN {"EOS"} ELSE {})
                    \cup mmal_field_flags(v.field, override),
     length |-> v.bytesused,
     pts |-> v.timestamp \div 1000,
     dts |-> "UNKNOWN"]

\* client buffer headers and field_override settings the conversion is
\* exercised on
HdrFlags == SUBSET {"KEYFRAME", "LAST", "PFRAME"}
HdrLengths == {0, 1, 4096}
HdrTimestamps == {0, 33366667}
HdrFields == {"NONE", "INTERLACED_TB", "INTERLACED_BT", "TOP"}
HdrOverrides == {"ANY", "INTERLACED_TB"}

Vb2Headers ==
    [flags : HdrFlags, bytesused : HdrLengths, timestamp : HdrTimestamps,
     field : HdrFields]

\* the MMAL header of a buffer that has not been converted since the client
\* filled it: what an earlier round trip left there
StaleMmal ==
    [mmal_flags |-> {"EOS", "KEYFRAME"}, length |-> 0, pts |-> 0, dts |-> "UNKNOWN"]

NoHdr ==
    [vb2 |-> [flags |-> {}, bytesused |-> 0, timestamp |-> 0, field |-> "NONE"],
     field_override |-> "ANY", mmal |-> StaleMmal, converted |-> FALSE]

(* ---------------------------------------------------------------------- *)
(* Buffer exchange and stream lifecycle                                    *)
(* ---------------------------------------------------------------------- *)
\* buffers a client allocates per queue
NumBufs == 2

\* the buffers of queue d
Bufs(d) == (d * NumBufs + 1) .. (d * NumBufs + NumBufs)
AllBufs == Bufs(V4L2_M2M_SRC) \cup Bufs(V4L2_M2M_DST)
QueueOf(b) == IF b \in Bufs(V4L2_M2M_SRC) THEN V4L2_M2M_SRC ELSE V4L2_M2M_DST

\* the configuration thread outside start_streaming and stop_streaming
Idle ==
    [op |-> "idle", pc |-> "idle", d |-> V4L2_M2M_SRC, num_buffers |-> 0,
     was_enabled |-> FALSE, inflight |-> {}, waits |-> 0,
     woken |-> FALSE, timedout |-> FALSE,
     count |-> 0, num_before |-> 0, pushed |-> FALSE]

\* no scheduler call and no event callback yet
NoJob ==
    [op |-> "none", aborting |-> FALSE, taken |-> <<0, 0>>, submitted |-> {},
     failed |-> {}, finished |-> 0, counted |-> 0, done |-> 0,
     buf |-> 0, kind |-> "none", state |-> "none", signalled |-> FALSE,
     resubmitted |-> FALSE, eos_event |-> 0, flags |-> {}, wrote |-> {}]

\* vb2_buffer_done: only a buffer the driver owns changes state
vb2_buffer_done(v, b, state) ==
    IF v[b] = "ACTIVE" THEN [v EXCEPT ![b] = state] ELSE v

\* bcm2835_codec_queue_setup for a buffer request on queue d, creating the
\* component on first use
queue_setup_ports(r, pt, qd, has_component, d) ==
    [e \in QTypes |->
        IF e = d
        THEN [(IF has_component THEN pt[e] ELSE new_port(r, qd[e])) EXCEPT
                 !.es.size = qd[e].sizeimage,
                 !.num = (IF NumBufs < PortMinNum THEN PortMinNum ELSE NumBufs) + 1]
        ELSE IF has_component THEN pt[e] ELSE new_port(r, qd[e])]

QueueSetup(d) ==
    /\ th.pc = "idle"
    /\ ~busy[d]
    /\ component' = TRUE
    /\ port' = queue_setup_ports(role, port, q_data, component, d)
    /\ busy' = [busy EXCEPT ![d] = TRUE]
    /\ UNCHANGED <<geom, role, streaming, negVars, hdr, vb, rdy, with_vpu,
                   frame_cmplt, th, component_enabled, eos_buffer,
                   eos, cb>>
    /\ UNCHANGED jobVars

\* VIDIOC_REQBUFS with a count of zero on a queue that is not streaming: the
\* queue framework frees the buffers and the queue is no longer busy; the
\* buffer count of the port stays as queue_setup left it
ReqBufsFree(d) ==
    /\ th.pc = "idle"
    /\ busy[d]
    /\ ~streaming[d]
    /\ rdy[d] = <<>>
    /\ with_vpu[d] = {}
    /\ \A b \in Bufs(d) : vb[b] = "DEQUEUED"
    /\ busy' = [busy EXCEPT ![d] = FALSE]
    /\ UNCHANGED <<geom, role, component, port, streaming, negVars, xchVars>>

\* VIDIOC_QBUF: bcm2835_codec_buf_queue puts the buffer on the ready queue
QBuf(b) ==
    /\ th.pc = "idle"
    /\ busy[QueueOf(b)]
    /\ vb[b] = "DEQUEUED"
    /\ b \notin with_vpu[QueueOf(b)]
    /\ vb' = [vb EXCEPT ![b] = "QUEUED"]
    /\ rdy' = [rdy EXCEPT ![QueueOf(b)] = Append(@, b)]
    /\ UNCHANGED <<geom, devVars, negVars, hdr, with_vpu, frame_cmplt, th,
                   component_enabled, eos_buffer,
                   eos, cb>>
    /\ UNCHANGED jobVars

\* VIDIOC_DQBUF of a completed buffer
DQBuf(b) ==
    /\ th.pc = "idle"
    /\ vb[b] \in {"DONE", "ERROR"}
    /\ vb' = [vb EXCEPT ![b] = "DEQUEUED"]
    /\ UNCHANGED <<geom, devVars, negVars, hdr, rdy, with_vpu, frame_cmplt, th,
                   component_enabled, eos_buffer,
                   eos, cb>>
    /\ UNCHANGED jobVars

\* job_ready
job_ready == rdy[V4L2_M2M_SRC] # <<>> \/ rdy[V4L2_M2M_DST] # <<>>

\* the buffer device_run removes from the ready queue of d, 0 for none
device_run_buf_unchecked(d) ==
    IF rdy[d] # <<>> THEN Head(rdy[d]) ELSE 0

device_run_buf(d) ==
    IF streaming[d] /\ rdy[d] # <<>> THEN Head(rdy[d]) ELSE 0

\* device_run: at most one buffer per direction is removed from its ready
\* queue and submitted; ok[d + 1] is the result of vchiq_mmal_submit_buffer
device_run(ok) ==
    /\ rdy' = [d \in QTypes |->
                  IF device_run_buf(d) # 0 THEN Tail(rdy[d]) ELSE rdy[d]]
    /\ vb' = [b \in AllBufs |->
                 IF b = device_run_buf(QueueOf(b)) THEN "ACTIVE" ELSE vb[b]]
    /\ with_vpu' = [d \in QTypes |->
                       IF device_run_buf(d) # 0 /\ ok[d + 1]
                       THEN with_vpu[d] \cup {device_run_buf(d)}
                       ELSE with_vpu[d]]
    /\ UNCHANGED <<geom, devVars, negVars, hdr, frame_cmplt, th,
                   component_enabled, eos_buffer, eos, cb, aborting, dev_mutex>>

\* a run of the session that finds a buffer to submit
DeviceRun(ok) ==
    /\ job_ready
    /\ \E d \in QTypes : device_run_buf(d) # 0
    /\ device_run(ok)
    /\ UNCHANGED job

\* job_abort
JobAbort ==
    /\ ~aborting
    /\ aborting' = TRUE
    /\ job' = [NoJob EXCEPT !.op = "abort"]
    /\ UNCHANGED <<geom, devVars, negVars, hdr, vb, rdy, with_vpu, frame_cmplt,
                   th, component_enabled, eos_buffer, eos, cb, dev_mutex>>

\* the calls of v4l2_m2m_job_finish one device_run makes
device_run_finish(src, dst) == 1

\* the scheduler runs the session after job_ready, on every path of
\* device_run; the record keeps the abort flag at entry, the buffers taken,
\* those submitted, those whose submission failed and the calls of
\* v4l2_m2m_job_finish
JobRun(ok) ==
    /\ job_ready
    /\ device_run(ok)
    /\ job' = [NoJob EXCEPT
                  !.op = "run",
                  !.aborting = aborting,
                  !.taken = <<device_run_buf(V4L2_M2M_SRC),
                              device_run_buf(V4L2_M2M_DST)>>,
                  !.submitted = {b \in AllBufs :
                                    /\ b = device_run_buf(QueueOf(b))
                                    /\ ok[QueueOf(b) + 1]},
                  !.failed = {b \in AllBufs :
                                 /\ b = device_run_buf(QueueOf(b))
                                 /\ ~ok[QueueOf(b) + 1]},
                  !.finished = device_run_finish(device_run_buf(V4L2_M2M_SRC),
                                                 device_run_buf(V4L2_M2M_DST))]

\* a completion test that leaves out the port's enabled flag
cb_complete_any_port(enabled, remaining, cmplt) ==
    IF remaining # {} THEN cmplt + 1 ELSE cmplt

\* the completions a return callback leaves: complete(&ctx->frame_cmplt)
\* when the port is disabled and the in-flight counter is not zero
cb_complete(enabled, remaining, cmplt) ==
    IF ~enabled /\ remaining # {} THEN cmplt + 1 ELSE cmplt

\* the VPU returns input buffer b: the port service takes it off the
\* in-flight count and calls ip_buffer_cb
ip_buffer_cb(b, status) ==
    /\ b \in with_vpu[V4L2_M2M_SRC]
    /\ with_vpu' = [with_vpu EXCEPT ![V4L2_M2M_SRC] = @ \ {b}]
    /\ IF status # 0
       THEN /\ vb' = vb2_buffer_done(vb, b, "ERROR")
            /\ UNCHANGED frame_cmplt
       ELSE /\ vb' = vb2_buffer_done(vb, b,
                        IF port[V4L2_M2M_SRC].enabled THEN "DONE" ELSE "REQUEUED")
            /\ frame_cmplt' = cb_complete(port[V4L2_M2M_SRC].enabled,
                                          with_vpu'[V4L2_M2M_SRC], frame_cmplt)
    /\ UNCHANGED <<geom, devVars, negVars, hdr, rdy, th, component_enabled,
                   eos_buffer, eos, cb, aborting, dev_mutex>>

IpBufferCb(b, status) ==
    /\ ip_buffer_cb(b, status)
    /\ UNCHANGED job

\* what ip_buffer_cb does with a client buffer: the state it passes to
\* vb2_buffer_done, the increment of ctx->num_ip_buffers and whether it
\* calls complete(&ctx->frame_cmplt)
ip_counted(status) == IF status # 0 THEN 0 ELSE 1

ip_buffer_cb_effect(status, enabled, remaining) ==
    [state |-> IF status # 0 THEN "ERROR"
               ELSE IF enabled THEN "DONE" ELSE "REQUEUED",
     counted |-> ip_counted(status),
     signalled |-> status = 0 /\ cb_complete(enabled, remaining, 0) = 1]

\* the same return, with the record of what the callback did
IpReturn(b, status) ==
    /\ ip_buffer_cb(b, status)
    /\ \E e \in {ip_buffer_cb_effect(status, port[V4L2_M2M_SRC].enabled,
                                      with_vpu[V4L2_M2M_SRC] \ {b})} :
          job' = [NoJob EXCEPT !.op = "ip_buffer", !.buf = b,
                               !.kind = IF status # 0 THEN "error" ELSE "ok",
                               !.state = e.state, !.counted = e.counted,
                               !.signalled = e.signalled]

\* kinds of data buffer the VPU returns on the output port
OpKinds == {"error", "empty", "eos", "eos_data", "data", "corrupted"}

\* the header of a returned output buffer by kind: "empty" has length zero
\* and no flag, "eos" length zero and MMAL_BUFFER_HEADER_FLAG_EOS,
\* "eos_data" a payload and that flag, "corrupted" a payload and
\* MMAL_BUFFER_HEADER_FLAG_CORRUPTED, "data" a payload and no flag
op_has_eos(kind) == kind \in {"eos", "eos_data"}

\* a test of the length alone, which takes an empty end-of-stream buffer
\* for a buffer returned during disable
op_is_empty_any(kind) == kind \in {"empty", "eos"}

\* a callback without the empty-buffer branch
op_is_empty_never(kind) == FALSE

\* the branch of op_buffer_cb at lines 1206-1221: an empty buffer without
\* the EOS flag
op_is_empty(kind) == kind = "empty"

\* the VPU returns output buffer b: the port service takes it off the
\* in-flight count and calls op_buffer_cb; ok is the result of the
\* resubmission of an empty buffer on an enabled port
op_buffer_cb(b, kind, ok) ==
    /\ b \in with_vpu[V4L2_M2M_DST]
    /\ IF kind = "error"
       THEN /\ with_vpu' = [with_vpu EXCEPT ![V4L2_M2M_DST] = @ \ {b}]
            /\ vb' = vb2_buffer_done(vb, b, "ERROR")
            /\ UNCHANGED frame_cmplt
       ELSE IF op_is_empty(kind)
       THEN IF ~port[V4L2_M2M_DST].enabled
            THEN /\ with_vpu' = [with_vpu EXCEPT ![V4L2_M2M_DST] = @ \ {b}]
                 /\ vb' = vb2_buffer_done(vb, b, "REQUEUED")
                 /\ frame_cmplt' = cb_complete(FALSE, with_vpu'[V4L2_M2M_DST],
                                               frame_cmplt)
            ELSE /\ with_vpu' = IF ok THEN with_vpu
                                ELSE [with_vpu EXCEPT ![V4L2_M2M_DST] = @ \ {b}]
                 /\ UNCHANGED <<vb, frame_cmplt>>
       ELSE /\ with_vpu' = [with_vpu EXCEPT ![V4L2_M2M_DST] = @ \ {b}]
            /\ vb' = vb2_buffer_done(vb, b,
                        IF kind = "corrupted" THEN "ERROR" ELSE "DONE")
            /\ frame_cmplt' = cb_complete(port[V4L2_M2M_DST].enabled,
                                          with_vpu'[V4L2_M2M_DST], frame_cmplt)
    /\ UNCHANGED <<geom, devVars, negVars, hdr, rdy, th, component_enabled,
                   eos_buffer, eos, cb, aborting, dev_mutex>>

OpBufferCb(b, kind, ok) ==
    /\ op_buffer_cb(b, kind, ok)
    /\ UNCHANGED job

\* the calls of send_eos_event for a buffer that passed that branch
op_eos_events(kind) == IF op_has_eos(kind) THEN 1 ELSE 0

\* what op_buffer_cb does with a client buffer: the state it passes to
\* vb2_buffer_done ("none" when it does not call it), the increment of
\* ctx->num_op_buffers, whether it calls complete(&ctx->frame_cmplt),
\* whether it submits the buffer again, the calls of send_eos_event, the
\* flags it sets in the client header and the header fields it writes
op_buffer_cb_effect(kind, enabled, remaining) ==
    IF kind = "error"
    THEN [state |-> "ERROR", counted |-> 0, signalled |-> FALSE,
          resubmitted |-> FALSE, eos_event |-> 0, flags |-> {}, wrote |-> {}]
    ELSE IF op_is_empty(kind)
    THEN [state |-> IF enabled THEN "none" ELSE "REQUEUED",
          counted |-> 0,
          signalled |-> ~enabled /\ remaining # {},
          resubmitted |-> enabled,
          eos_event |-> 0, flags |-> {}, wrote |-> {}]
    ELSE [state |-> IF kind = "corrupted" THEN "ERROR" ELSE "DONE",
          counted |-> 1,
          signalled |-> cb_complete(enabled, remaining, 0) = 1,
          resubmitted |-> FALSE,
          eos_event |-> op_eos_events(kind),
          flags |-> IF op_has_eos(kind) THEN {"LAST"} ELSE {},
          wrote |-> {"timestamp", "payload", "field"}]

\* the same return, with the record of what the callback did
OpReturn(b, kind, ok) ==
    /\ op_buffer_cb(b, kind, ok)
    /\ \E e \in {op_buffer_cb_effect(kind, port[V4L2_M2M_DST].enabled,
                                      with_vpu[V4L2_M2M_DST] \ {b})} :
          job' = [NoJob EXCEPT !.op = "op_buffer", !.buf = b, !.kind = kind,
                               !.state = e.state, !.counted = e.counted,
                               !.signalled = e.signalled,
                               !.resubmitted = e.resubmitted,
                               !.eos_event = e.eos_event,
                               !.flags = e.flags, !.wrote = e.wrote]

\* ip_buffer_cb for a message that carries an event (cmd set): it is logged
\* and the callback goes on as for a data buffer, with the buffer the
\* message header resolves to: b, or none of the client's buffers (0)
IpEventCb(b) ==
    /\ component
    /\ vb' = IF b # 0
             THEN vb2_buffer_done(vb, b,
                      IF port[V4L2_M2M_SRC].enabled THEN "DONE" ELSE "REQUEUED")
             ELSE vb
    /\ frame_cmplt' = cb_complete(port[V4L2_M2M_SRC].enabled,
                                  with_vpu[V4L2_M2M_SRC], frame_cmplt)
    /\ job' = [NoJob EXCEPT !.op = "ip_event", !.counted = 1,
                            !.done = IF b # 0 /\ vb[b] = "ACTIVE" THEN b ELSE 0]
    /\ UNCHANGED <<geom, devVars, negVars, hdr, rdy, with_vpu, th,
                   component_enabled, eos_buffer, eos, cb, aborting, dev_mutex>>

\* op_buffer_cb for an event other than MMAL_EVENT_FORMAT_CHANGED: it is
\* logged and the callback returns
OpEventCb ==
    /\ component
    /\ job' = [NoJob EXCEPT !.op = "op_event"]
    /\ UNCHANGED <<geom, devVars, negVars, hdr, vb, rdy, with_vpu, frame_cmplt,
                   th, component_enabled, eos_buffer, eos, cb, aborting, dev_mutex>>

\* wait_for_completion_timeout(&ctx->frame_cmplt, COMPLETE_TIMEOUT) gives
\* up after the timeout
wait_never_expires == FALSE

wait_expires == TRUE

\* the buffer count a start_streaming on an enabled port goes on with after
\* the disable re-read the port format: the count retained before it
start_num_reread(p, num_buffers) == p.num

start_num_retained(p, num_buffers) == num_buffers

\* start_streaming up to the port disable: the component is enabled, and a
\* port found enabled is disabled with its buffer count retained
StartBegin(d) ==
    /\ th.pc = "idle"
    /\ busy[d]
    /\ ~streaming[d]
    /\ component_enabled' = TRUE
    /\ IF port[d].enabled
       THEN /\ frame_cmplt' = 0
            /\ port' = [port EXCEPT ![d] = vchiq_mmal_port_disable(@)]
            /\ th' = [Idle EXCEPT !.op = "start", !.pc = "flush", !.d = d,
                                  !.num_buffers = port[d].num,
                                  !.was_enabled = TRUE,
                                  !.inflight = with_vpu[d],
                                  !.count = Len(rdy[d]),
                                  !.num_before = port[d].num]
       ELSE /\ th' = [Idle EXCEPT !.op = "start", !.pc = "tail", !.d = d,
                                  !.count = Len(rdy[d]),
                                  !.num_before = port[d].num]
            /\ UNCHANGED <<frame_cmplt, port>>
    /\ UNCHANGED <<geom, role, component, busy, streaming, negVars, hdr, vb,
                   rdy, with_vpu, eos_buffer,
                   eos, cb>>
    /\ UNCHANGED <<aborting, job>>
    /\ dev_mutex' = "held"

\* stop_streaming up to the port disable: the ready queue is handed back
\* in the QUEUED state and the port is disabled
StopBegin(d) ==
    /\ th.pc = "idle"
    /\ streaming[d]
    /\ frame_cmplt' = 0
    /\ vb' = [b \in AllBufs |->
                 IF \E i \in 1 .. Len(rdy[d]) : rdy[d][i] = b
                 THEN "REQUEUED" ELSE vb[b]]
    /\ rdy' = [rdy EXCEPT ![d] = <<>>]
    /\ port' = [port EXCEPT ![d] = vchiq_mmal_port_disable(@)]
    /\ th' = [Idle EXCEPT !.op = "stop", !.pc = "flush", !.d = d,
                          !.inflight = with_vpu[d]]
    /\ UNCHANGED <<geom, role, component, busy, streaming, negVars, hdr,
                   with_vpu, component_enabled, eos_buffer,
                   eos, cb>>
    /\ UNCHANGED <<aborting, job>>
    /\ dev_mutex' = "held"

\* bcm2835_codec_flush_buffers: the read of the in-flight counter
FlushCheck ==
    /\ th.pc = "flush"
    /\ th' = IF with_vpu[th.d] # {}
             THEN [th EXCEPT !.pc = "wait", !.waits = @ + 1]
             ELSE [th EXCEPT !.pc = "tail"]
    /\ UNCHANGED <<geom, devVars, negVars, hdr, vb, rdy, with_vpu, frame_cmplt,
                   component_enabled, eos_buffer,
                   eos, cb>>
    /\ UNCHANGED jobVars

\* bcm2835_codec_flush_buffers: the wait ends on a completion
FlushWake ==
    /\ th.pc = "wait"
    /\ frame_cmplt > 0
    /\ frame_cmplt' = frame_cmplt - 1
    /\ th' = [th EXCEPT !.pc = "tail", !.woken = TRUE]
    /\ UNCHANGED <<geom, devVars, negVars, hdr, vb, rdy, with_vpu,
                   component_enabled, eos_buffer,
                   eos, cb>>
    /\ UNCHANGED jobVars

\* bcm2835_codec_flush_buffers: the wait ends on the timeout, which is
\* only logged
FlushTimeout ==
    /\ th.pc = "wait"
    /\ frame_cmplt = 0
    /\ wait_expires
    /\ th' = [th EXCEPT !.pc = "tail", !.timedout = TRUE]
    /\ UNCHANGED <<geom, devVars, negVars, hdr, vb, rdy, with_vpu, frame_cmplt,
                   component_enabled, eos_buffer,
                   eos, cb>>
    /\ UNCHANGED jobVars

\* lines 3173-3174 of start_streaming: count raised to the port minimum
start_count_unclamped(count) == count

start_count(count) == IF count < PortMinNum THEN PortMinNum ELSE count

\* the buffer count of the port when start_streaming reaches line 3173
start_num(p, was_enabled, num_buffers) ==
    IF was_enabled THEN start_num_retained(p, num_buffers) ELSE p.num

\* line 3176 of start_streaming: the count is raised and the port format
\* pushed again with vchiq_mmal_port_set_format
start_set_format(num, count) == num < start_count(count) + 1

\* the port of queue d when start_streaming returns: count retained over a
\* disable, raised to the queued buffers plus one, port enabled
start_port(p, was_enabled, num_buffers, count) ==
    [p EXCEPT !.enabled = TRUE,
              !.num = IF start_set_format(start_num(p, was_enabled, num_buffers),
                                          count)
                      THEN start_count(count) + 1
                      ELSE start_num(p, was_enabled, num_buffers)]

\* start_streaming after the drain
StartTail ==
    /\ th.op = "start"
    /\ th.pc = "tail"
    /\ port' = [e \in QTypes |->
                   IF e = th.d
                   THEN start_port(port[e], th.was_enabled, th.num_buffers,
                                   th.count)
                   ELSE IF role = DECODE /\ th.d = V4L2_M2M_SRC
                   THEN vchiq_mmal_port_enable(port[e])
                   ELSE port[e]]
    /\ eos_buffer' = IF th.d = V4L2_M2M_SRC THEN "init" ELSE eos_buffer
    /\ eos' = IF th.d = V4L2_M2M_SRC THEN [eos EXCEPT !.in_use = FALSE]
                                      ELSE eos
    /\ UNCHANGED cb
    /\ th' = [th EXCEPT !.pc = "ret",
                        !.pushed = start_set_format(
                                       start_num(port[th.d], th.was_enabled,
                                                 th.num_buffers), th.count)]
    /\ UNCHANGED <<geom, role, component, busy, streaming, negVars, hdr, vb,
                   rdy, with_vpu, frame_cmplt, component_enabled>>
    /\ UNCHANGED jobVars

\* start_streaming returned 0: the queue framework marks the queue
\* streaming
StreamOnDone ==
    /\ th.op = "start"
    /\ th.pc = "ret"
    /\ streaming' = [streaming EXCEPT ![th.d] = TRUE]
    /\ th' = Idle
    /\ UNCHANGED <<geom, role, component, port, busy, negVars, hdr, vb, rdy,
                   with_vpu, frame_cmplt, component_enabled, eos_buffer,
                   eos, cb>>
    /\ UNCHANGED <<aborting, job>>
    /\ dev_mutex' = "free"

\* the output port after a stop_streaming: on the decoder it is enabled
\* again while the input port is enabled
stop_reenable_never(r, d, pt) == pt

stop_reenable(r, d, pt) ==
    IF r = DECODE /\ d = V4L2_M2M_DST /\ pt[V4L2_M2M_SRC].enabled
    THEN [pt EXCEPT ![V4L2_M2M_DST] = vchiq_mmal_port_enable(@)]
    ELSE pt

\* component_enabled after a stop_streaming: the component is disabled when
\* both ports are disabled
stop_component_kept(enabled, pt) == enabled

stop_component_enabled(enabled, pt) ==
    enabled /\ (pt[V4L2_M2M_SRC].enabled \/ pt[V4L2_M2M_DST].enabled)

\* stop_streaming after the drain
StopTail ==
    /\ th.op = "stop"
    /\ th.pc = "tail"
    /\ port' = stop_reenable(role, th.d, port)
    /\ component_enabled' = stop_component_enabled(component_enabled, port')
    /\ eos_buffer' = IF th.d = V4L2_M2M_SRC THEN "cleaned" ELSE eos_buffer
    /\ UNCHANGED <<eos, cb>>
    /\ th' = [th EXCEPT !.pc = "ret"]
    /\ UNCHANGED <<geom, role, component, busy, streaming, negVars, hdr, vb,
                   rdy, with_vpu, frame_cmplt>>
    /\ UNCHANGED jobVars

\* stop_streaming returned: the queue framework takes every buffer of the
\* queue back for the client and the queue is no longer streaming
StreamOffDone ==
    /\ th.op = "stop"
    /\ th.pc = "ret"
    /\ vb' = [b \in AllBufs |-> IF b \in Bufs(th.d) THEN "DEQUEUED" ELSE vb[b]]
    /\ streaming' = [streaming EXCEPT ![th.d] = FALSE]
    /\ th' = Idle
    /\ UNCHANGED <<geom, role, component, port, busy, negVars, hdr, rdy,
                   with_vpu, frame_cmplt, component_enabled, eos_buffer,
                   eos, cb>>
    /\ UNCHANGED <<aborting, job>>
    /\ dev_mutex' = "free"

(* ---------------------------------------------------------------------- *)
(* SpecGeom: the geometry calculator applied to the catalogue              *)
(* ---------------------------------------------------------------------- *)
\* widths, heights and strides the calculator is exercised on; the device
\* bounds of the role (max_w, max_h) cut them
GeomWidths == {0, 32, 1280, 1281, 1920, 16384}
GeomHeights == {0, 32, 720, 1080, 1920, 16384}
GeomStrides == {0, 4096}

\* the record of one evaluation: stride by get_bytesperline, size by
\* get_sizeimage from it (sizeimage), and the size get_sizeimage gives for
\* the caller's own stride (sizeimage_s)
GeomEval(r, f, w, h, stride) ==
    LET fmt == supported_formats[f]
        bpl == get_bytesperline(w, h, fmt, r)
    IN  [role |-> r, fmt |-> f, width |-> w, height |-> h,
         bytesperline |-> bpl,
         sizeimage |-> get_sizeimage(bpl, w, h, fmt),
         stride |-> stride,
         sizeimage_s |-> get_sizeimage(stride, w, h, fmt)]

\* requests clients make on queue d: geometry and colorimetry shapes, with
\* the last fourcc of the queue's format list or one the list does not have
ReqShapes ==
    {[width |-> 0, height |-> 0, bytesperline |-> 0, sizeimage |-> 0,
      field |-> "ANY", colorspace |-> "DEFAULT"],
     [width |-> 48, height |-> 40, bytesperline |-> 4096, sizeimage |-> 8388608,
      field |-> "TOP", colorspace |-> "SRGB"],
     [width |-> 20000, height |-> 20000, bytesperline |-> 0, sizeimage |-> 0,
      field |-> "ANY", colorspace |-> "DEFAULT"]}

ReqFourccs(r, d) ==
    LET fmts == get_format_list(r, d)
    IN  {supported_formats[fmts[Len(fmts)]].fourcc, "GREY"}

Requests(r, d) ==
    {[pixelformat |-> p, width |-> s.width, height |-> s.height,
      bytesperline |-> s.bytesperline, sizeimage |-> s.sizeimage,
      field |-> s.field, colorspace |-> s.colorspace,
      xfer_func |-> "DEFAULT", ycbcr_enc |-> "DEFAULT",
      quantization |-> "DEFAULT"] : p \in ReqFourccs(r, d), s \in ReqShapes}

\* results of the VPU for the format pushes of one set-format: without a
\* component nothing is pushed, and only the decoder and the image encoder
\* push a second time
PushResults ==
    IF ~component THEN {<<TRUE, TRUE>>}
    ELSE IF role \in {DECODE, ENCODE_IMAGE} THEN BOOLEAN \X BOOLEAN
    ELSE BOOLEAN \X {TRUE}

NoLast ==
    [op |-> "open", type |-> V4L2_M2M_SRC, ret |-> 0, req |-> <<>>,
     repeat |-> FALSE, old |-> <<>>,
                trace |-> NoTrace, out |-> <<>>]

\* the session as bcm2835_codec_open leaves it
Opened(r) ==
    /\ role = r
    /\ q_data = [d \in QTypes |-> open_q_data(r, d)]
    /\ ctx = open_ctx
    /\ last = NoLast
    /\ evt = 0

\* no component yet: both ports absent, no buffers, nothing streaming
NoComponent ==
    /\ component = FALSE
    /\ port = [d \in QTypes |-> new_port(role, q_data[d])]
    /\ busy = [d \in QTypes |-> FALSE]
    /\ streaming = [d \in QTypes |-> FALSE]

NoSession == Opened(DECODE) /\ NoComponent

\* no format-changed event being handled
NoCb == [pc |-> "idle", e |-> <<>>, q0 |-> <<>>, mid |-> <<>>]

\* the end-of-stream buffer at rest: eos_buffer_in_use clear, no submission
\* outstanding; warned records whether the last stop command logged
\* "EOS buffers already in use"
NoEos == [in_use |-> FALSE, with_vpu |-> 0, warned |-> FALSE]

\* nothing queued, nothing in flight, no stream operation under way
NoExchange ==
    /\ vb = [b \in AllBufs |-> "DEQUEUED"]
    /\ rdy = [d \in QTypes |-> <<>>]
    /\ with_vpu = [d \in QTypes |-> {}]
    /\ frame_cmplt = 0
    /\ th = Idle
    /\ component_enabled = FALSE
    /\ eos_buffer = "none"
    /\ eos = NoEos /\ cb = NoCb
    /\ aborting = FALSE
    /\ dev_mutex = "free"
    /\ job = NoJob

\* a session opens at DEFAULT_WIDTH x DEFAULT_HEIGHT (bcm2835_codec_open)
GeomInit ==
    \E r \in Roles, f \in 1 .. NumFormats :
        /\ geom = GeomEval(r, f, DEFAULT_WIDTH, DEFAULT_HEIGHT, 0)
        /\ NoSession
        /\ NoExchange
        /\ hdr = NoHdr

GeomResize ==
    \E w \in GeomWidths, h \in GeomHeights :
        /\ w <= max_w(geom.role)
        /\ h <= max_h(geom.role)
        /\ geom' = GeomEval(geom.role, geom.fmt, w, h, geom.stride)
        /\ UNCHANGED <<devVars, negVars, xchVars>>

GeomStride ==
    \E s \in GeomStrides :
        /\ geom' = GeomEval(geom.role, geom.fmt, geom.width, geom.height, s)
        /\ UNCHANGED <<devVars, negVars, xchVars>>

GeomNext == GeomResize \/ GeomStride

SpecGeom == GeomInit /\ [][GeomNext]_vars

(* ---------------------------------------------------------------------- *)
(* SpecFmt: format negotiation on an open session                          *)
(* ---------------------------------------------------------------------- *)
\* states of the queues and ports that buffer requests and stream-on reach
\* when the client sets up the input queue first, or the capture queue
\* alone: a streaming queue has buffers and an enabled port, and on the
\* decoder the output port is enabled with the input port
Lifecycles(r) ==
    {l \in [busy : [QTypes -> BOOLEAN], streaming : [QTypes -> BOOLEAN],
            enabled : [QTypes -> BOOLEAN]] :
        /\ \A d \in QTypes : l.streaming[d] => l.busy[d]
        /\ l.busy[V4L2_M2M_DST] =>
              /\ l.streaming[V4L2_M2M_DST]
              /\ l.streaming[V4L2_M2M_SRC] \/ ~l.busy[V4L2_M2M_SRC]
        /\ l.enabled[V4L2_M2M_SRC] = l.streaming[V4L2_M2M_SRC]
        /\ l.enabled[V4L2_M2M_DST] =
              (l.streaming[V4L2_M2M_DST] \/ (r = DECODE /\ l.streaming[V4L2_M2M_SRC]))}

FmtInit ==
    /\ geom = GeomEval(DECODE, 1, DEFAULT_WIDTH, DEFAULT_HEIGHT, 0)
    /\ hdr = NoHdr
    /\ NoExchange
    /\ \E r \in Roles :
        /\ Opened(r)
        /\ \/ NoComponent
           \/ \E l \in Lifecycles(r) :
                /\ component = TRUE
                /\ busy = l.busy
                /\ streaming = l.streaming
                /\ port = [d \in QTypes |->
                             [new_port(r, q_data[d]) EXCEPT
                                 !.enabled = l.enabled[d],
                                 !.num = IF l.busy[d] THEN NumBufs + 1
                                         ELSE PortMinNum]]

FmtNext ==
    \/ \E d \in QTypes : \E f \in Requests(role, d) : TryFmt(d, f)
    \/ \E d \in QTypes : \E f \in Requests(role, d), ok \in PushResults :
           SFmt(d, f, ok)
    \/ \E e \in FmtEvents : FmtChanged(e)
    \/ \E d \in QTypes, t \in {"CROP", "COMPOSE"}, r \in SelRects, ok \in BOOLEAN :
           SSelection(d, t, r, ok)

SpecFmt == FmtInit /\ [][FmtNext]_vars

(* ---------------------------------------------------------------------- *)
(* SpecHdr: the header conversion applied to client buffers                *)
(* ---------------------------------------------------------------------- *)
HdrInit ==
    /\ geom = GeomEval(DECODE, 1, DEFAULT_WIDTH, DEFAULT_HEIGHT, 0)
    /\ NoSession
    /\ NoExchange
    /\ \E v \in Vb2Headers, o \in HdrOverrides :
          hdr = [vb2 |-> v, field_override |-> o, mmal |-> StaleMmal,
                 converted |-> FALSE]

\* device_run converts the header of the buffer it submits
HdrConvert ==
    /\ ~hdr.converted
    /\ hdr' = [hdr EXCEPT !.mmal = vb2_to_mmal_buffer(hdr.vb2, hdr.field_override),
                          !.converted = TRUE]
    /\ UNCHANGED <<geom, devVars, negVars, vb, rdy, with_vpu, frame_cmplt, th,
                   component_enabled, eos_buffer,
                   eos, cb>>
    /\ UNCHANGED jobVars

\* the client fills the buffer again
HdrRefill ==
    /\ hdr.converted
    /\ \E v \in Vb2Headers :
          hdr' = [hdr EXCEPT !.vb2 = v, !.converted = FALSE]
    /\ UNCHANGED <<geom, devVars, negVars, vb, rdy, with_vpu, frame_cmplt, th,
                   component_enabled, eos_buffer,
                   eos, cb>>
    /\ UNCHANGED jobVars

HdrNext == HdrConvert \/ HdrRefill

SpecHdr == HdrInit /\ [][HdrNext]_vars

(* ---------------------------------------------------------------------- *)
(* Spec: buffer exchange and stream lifecycle of one session               *)
(* ---------------------------------------------------------------------- *)
\* roles the exchange is run for: the decoder, whose output port follows
\* the input port, and one role without that coupling
ExchRoles == {DECODE, ENCODE}

Init ==
    /\ geom = GeomEval(DECODE, 1, DEFAULT_WIDTH, DEFAULT_HEIGHT, 0)
    /\ hdr = NoHdr
    /\ \E r \in ExchRoles : Opened(r)
    /\ NoComponent
    /\ NoExchange

ThreadStep ==
    \/ FlushCheck
    \/ FlushWake
    \/ FlushTimeout
    \/ StartTail
    \/ StreamOnDone
    \/ StopTail
    \/ StreamOffDone

Next ==
    \/ \E d \in QTypes : QueueSetup(d)
    \/ \E b \in AllBufs : QBuf(b)
    \/ \E b \in AllBufs : DQBuf(b)
    \/ \E ok \in BOOLEAN \X BOOLEAN : DeviceRun(ok)
    \/ \E b \in Bufs(V4L2_M2M_SRC), status \in {0, 1} : IpBufferCb(b, status)
    \/ \E b \in Bufs(V4L2_M2M_DST), kind \in OpKinds, ok \in BOOLEAN :
           OpBufferCb(b, kind, ok)
    \/ \E d \in QTypes : StartBegin(d)
    \/ \E d \in QTypes : StopBegin(d)
    \/ ThreadStep

Spec == Init /\ [][Next]_vars

\* the configuration thread keeps running: once in start_streaming or
\* stop_streaming it takes its next step, and a wait ends at the latest
\* when its timeout expires
FairSpec == Spec /\ WF_vars(ThreadStep)

(* ---------------------------------------------------------------------- *)
(* SpecCfg: stream lifecycle and set-format on the decoder, no buffers     *)
(* queued                                                                  *)
(* ---------------------------------------------------------------------- *)
\* the request the client negotiates with between stream operations
CfgRequests(r, d) ==
    {f \in Requests(r, d) : f.width = 48 /\ f.pixelformat # "GREY"}

CfgInit ==
    /\ geom = GeomEval(DECODE, 1, DEFAULT_WIDTH, DEFAULT_HEIGHT, 0)
    /\ hdr = NoHdr
    /\ Opened(DECODE)
    /\ NoComponent
    /\ NoExchange

\* VIDIOC_S_FMT between stream operations: the device mutex serialises it
\* with start_streaming and stop_streaming
CfgSFmt(d, f0, ok) ==
    /\ th.pc = "idle"
    /\ SFmt(d, f0, ok)

CfgNext ==
    \/ \E d \in QTypes : QueueSetup(d)
    \/ \E d \in QTypes : StartBegin(d)
    \/ \E d \in QTypes : StopBegin(d)
    \/ FlushCheck
    \/ StartTail
    \/ StreamOnDone
    \/ StopTail
    \/ StreamOffDone
    \/ \E d \in QTypes : \E f \in CfgRequests(role, d), ok \in PushResults :
           CfgSFmt(d, f, ok)
    \/ \E d \in QTypes : ReqBufsFree(d)

SpecCfg == CfgInit /\ [][CfgNext]_vars

(* ---------------------------------------------------------------------- *)
(* SpecRun: the scheduler and the callbacks on a session that is streaming *)
(* ---------------------------------------------------------------------- *)
\* the session after buffers were requested on both queues and at least one
\* queue was started: the port of a started queue is enabled, and on the
\* decoder the output port with the input port
RunInit ==
    /\ geom = GeomEval(DECODE, 1, DEFAULT_WIDTH, DEFAULT_HEIGHT, 0)
    /\ hdr = NoHdr
    /\ \E r \in ExchRoles : Opened(r)
    /\ component = TRUE
    /\ busy = [d \in QTypes |-> TRUE]
    /\ \E st \in [QTypes -> BOOLEAN] :
          /\ st[V4L2_M2M_SRC] \/ st[V4L2_M2M_DST]
          /\ streaming = st
          /\ port = [d \in QTypes |->
                       [new_port(role, q_data[d]) EXCEPT
                           !.enabled = st[d] \/ (role = DECODE /\ d = V4L2_M2M_DST),
                           !.num = NumBufs + 1]]
          /\ eos_buffer = IF st[V4L2_M2M_SRC] THEN "init" ELSE "none"
          /\ eos = NoEos /\ cb = NoCb
    /\ vb = [b \in AllBufs |-> "DEQUEUED"]
    /\ rdy = [d \in QTypes |-> <<>>]
    /\ with_vpu = [d \in QTypes |-> {}]
    /\ frame_cmplt = 0
    /\ th = Idle
    /\ component_enabled = TRUE
    /\ aborting = FALSE
    /\ dev_mutex = "free"
    /\ job = NoJob

RunNext ==
    \/ \E b \in AllBufs : QBuf(b)
    \/ \E b \in AllBufs : DQBuf(b)
    \/ JobAbort
    \/ \E ok \in BOOLEAN \X BOOLEAN : JobRun(ok)
    \/ \E b \in Bufs(V4L2_M2M_SRC), status \in {0, 1} : IpBufferCb(b, status)
    \/ \E b \in Bufs(V4L2_M2M_DST), kind \in OpKinds, ok \in BOOLEAN :
           OpBufferCb(b, kind, ok)
    \/ \E b \in {0} \cup Bufs(V4L2_M2M_SRC) : IpEventCb(b)
    \/ OpEventCb

SpecRun == RunInit /\ [][RunNext]_vars

(* ---------------------------------------------------------------------- *)
(* SpecDrain: the return callbacks on a streaming session that is stopped  *)
(* ---------------------------------------------------------------------- *)
\* the session streams on both queues and every buffer of the client has
\* been queued and submitted: all of them are in flight
DrainInit ==
    /\ geom = GeomEval(DECODE, 1, DEFAULT_WIDTH, DEFAULT_HEIGHT, 0)
    /\ hdr = NoHdr
    /\ \E r \in ExchRoles : Opened(r)
    /\ component = TRUE
    /\ busy = [d \in QTypes |-> TRUE]
    /\ streaming = [d \in QTypes |-> TRUE]
    /\ port = [d \in QTypes |->
                 [new_port(role, q_data[d]) EXCEPT !.enabled = TRUE,
                                                   !.num = NumBufs + 1]]
    /\ eos_buffer = "init"
    /\ eos = NoEos /\ cb = NoCb
    /\ vb = [b \in AllBufs |-> "ACTIVE"]
    /\ rdy = [d \in QTypes |-> <<>>]
    /\ with_vpu = [d \in QTypes |-> Bufs(d)]
    /\ frame_cmplt = 0
    /\ th = Idle
    /\ component_enabled = TRUE
    /\ aborting = FALSE
    /\ dev_mutex = "free"
    /\ job = NoJob

\* an event message on the input callback while fewer completions are
\* pending than the client has buffers on a queue
DrainIpEventCb(b) ==
    /\ frame_cmplt < NumBufs
    /\ IpEventCb(b)

DrainNext ==
    \/ \E b \in Bufs(V4L2_M2M_SRC), status \in {0, 1} : IpReturn(b, status)
    \/ \E b \in Bufs(V4L2_M2M_DST), kind \in OpKinds, ok \in BOOLEAN :
           OpReturn(b, kind, ok)
    \/ \E b \in {0} \cup Bufs(V4L2_M2M_SRC) : DrainIpEventCb(b)
    \/ \E d \in QTypes : StopBegin(d)
    \/ FlushCheck
    \/ FlushWake
    \/ FlushTimeout
    \/ StopTail
    \/ StreamOffDone

SpecDrain == DrainInit /\ [][DrainNext]_vars

(* ---------------------------------------------------------------------- *)
(* SpecSel: selection rectangles on an open session                        *)
(* ---------------------------------------------------------------------- *)
\* rectangles clients select one after the other: a small one, and one
\* wider than it and taller than any buffer
SelRectsWide == {<<16, 16>>, <<24, 2000>>}

SelNext ==
    \/ \E d \in QTypes : \E f \in CfgRequests(role, d), ok \in PushResults :
           SFmt(d, f, ok)
    \/ \E e \in FmtEvents : FmtChanged(e)
    \/ \E d \in QTypes, t \in {"CROP", "COMPOSE"}, r \in SelRectsWide,
           ok \in BOOLEAN : SSelection(d, t, r, ok)
    \/ \E d \in QTypes, t \in SelTargets : GSelection(d, t)

SpecSel == FmtInit /\ [][SelNext]_vars

(* ---------------------------------------------------------------------- *)
(* SpecTry: the try phase on requests of every shape                       *)
(* ---------------------------------------------------------------------- *)
\* widths, heights, strides and sizes clients ask for: zero, below the
\* minimum, unaligned, above every device bound, and the largest value
\* of the 32-bit field (-1 is 0xFFFFFFFF)
TryWidths == {0, 31, 48, 20000}
TryHeights == {0, 40, 20000}
TryStrides == {0, 100, 4096, -1}
TrySizes == {0, 8388608}

TryFourccs(r, d) ==
    {supported_formats[get_format_list(r, d)[k]].fourcc :
        k \in 1 .. Len(get_format_list(r, d))} \cup {"GREY"}

TryRequests(r, d) ==
    {[pixelformat |-> p, width |-> w, height |-> h,
      bytesperline |-> b, sizeimage |-> z,
      field |-> "ANY", colorspace |-> "DEFAULT",
      xfer_func |-> "DEFAULT", ycbcr_enc |-> "DEFAULT",
      quantization |-> "DEFAULT"] :
        p \in TryFourccs(r, d), w \in TryWidths, h \in TryHeights,
        b \in TryStrides, z \in TrySizes}

\* a try phase that keeps the height it computed in the queue state
TryFmtStores(d, f0) ==
    /\ last' = [op |-> "try_fmt", type |-> d, ret |-> 0, req |-> f0,
                repeat |-> FALSE, old |-> <<>>, trace |-> NoTrace,
                out |-> <<try_fmt_vid(role, ctx, d, f0)>>]
    /\ q_data' = [q_data EXCEPT
                     ![d].height = try_fmt_vid(role, ctx, d, f0).height]
    /\ UNCHANGED <<geom, devVars, ctx, evt, xchVars>>

\* VIDIOC_TRY_FMT on queue d, with the request and the record it hands
\* back to the client
TryFmtRec(d, f0) ==
    /\ last' = [op |-> "try_fmt", type |-> d, ret |-> 0, req |-> f0,
                repeat |-> FALSE, old |-> <<>>, trace |-> NoTrace,
                out |-> <<try_fmt_vid(role, ctx, d, f0)>>]
    /\ UNCHANGED <<geom, devVars, q_data, ctx, evt, xchVars>>

\* a session of any role just opened, or with both queues streaming
TryInit ==
    /\ geom = GeomEval(DECODE, 1, DEFAULT_WIDTH, DEFAULT_HEIGHT, 0)
    /\ hdr = NoHdr
    /\ NoExchange
    /\ \E r \in Roles :
        /\ Opened(r)
        /\ \/ NoComponent
           \/ /\ component = TRUE
              /\ busy = [d \in QTypes |-> TRUE]
              /\ streaming = [d \in QTypes |-> TRUE]
              /\ port = [d \in QTypes |->
                           [new_port(r, q_data[d]) EXCEPT
                               !.enabled = TRUE, !.num = NumBufs + 1]]

TryNext == \E d \in QTypes : \E f \in TryRequests(role, d) : TryFmtRec(d, f)

SpecTry == TryInit /\ [][TryNext]_vars

(* ---------------------------------------------------------------------- *)
(* SpecRace: the format-changed handler against calls on the capture       *)
(* queue of the decoder                                                    *)
(* ---------------------------------------------------------------------- *)
\* what vidioc_g_fmt copies out of a queue state and the colorimetry
vidioc_g_fmt(q, c) ==
    [width |-> q.crop_width, height |-> q.height,
     pixelformat |-> supported_formats[q.fmt].fourcc, field |-> q.field,
     colorspace |-> c.colorspace, sizeimage |-> q.sizeimage,
     bytesperline |-> q.bytesperline, ycbcr_enc |-> c.ycbcr_enc,
     quantization |-> c.quant, xfer_func |-> c.xfer_func]

\* VIDIOC_G_FMT on queue d
GFmt(d) ==
    /\ last' = [op |-> "g_fmt", type |-> d, ret |-> 0, req |-> <<>>,
                repeat |-> FALSE, old |-> <<>>, trace |-> NoTrace,
                out |-> <<vidioc_g_fmt(q_data[d], ctx)>>]
    /\ UNCHANGED <<geom, devVars, q_data, ctx, evt, xchVars>>

\* the stores of handle_fmt_changed up to the stride (lines 1118-1129)
fmt_changed_head(r, q, e) ==
    [q EXCEPT !.crop_width = e.crop_width,
              !.crop_height = e.crop_height,
              !.selection_set = TRUE,
              !.bytesperline = get_bytesperline(e.width, e.height,
                                                supported_formats[q.fmt], r)]

\* and its stores from the height on (lines 1131-1153)
fmt_changed_tail(q, e) ==
    [q EXCEPT !.height = e.height,
              !.sizeimage = e.buffer_size_min,
              !.aspect_ratio = e.par,
              !.field = IF e.interlace = "UPPER_FIRST" THEN "INTERLACED_TB"
                        ELSE IF e.interlace = "LOWER_FIRST" THEN "INTERLACED_BT"
                        ELSE "NONE"]

\* op_buffer_cb for a buffer carrying MMAL_EVENT_FORMAT_CHANGED, on the
\* callback thread, which takes no lock: the handler up to its store of the
\* stride; an event that is not video ends the handler at once
FmtChangedBegin(e) ==
    /\ cb.pc = "idle"
    /\ component
    /\ port[V4L2_M2M_DST].enabled
    /\ IF e.video
       THEN /\ q_data' = [q_data EXCEPT ![V4L2_M2M_DST] =
                            fmt_changed_head(role, q_data[V4L2_M2M_DST], e)]
            /\ cb' = [pc |-> "mid", e |-> e, q0 |-> q_data, mid |-> <<>>]
            /\ last' = [op |-> "fmt_changed_begin", type |-> V4L2_M2M_DST,
                        ret |-> 0, req |-> <<>>, repeat |-> FALSE,
                        old |-> <<>>, trace |-> NoTrace, out |-> <<>>]
       ELSE /\ UNCHANGED <<q_data, cb>>
            /\ last' = [op |-> "fmt_changed", type |-> V4L2_M2M_DST,
                        ret |-> 0, req |-> <<>>, repeat |-> FALSE,
                        old |-> <<>>, trace |-> NoTrace, out |-> <<>>]
    /\ UNCHANGED <<geom, devVars, ctx, evt, hdr, vb, rdy, with_vpu,
                   frame_cmplt, th, component_enabled, eos_buffer, eos,
                   jobVars>>

\* the rest of the handler
FmtChangedEnd ==
    /\ cb.pc = "mid"
    /\ q_data' = [q_data EXCEPT ![V4L2_M2M_DST] =
                     fmt_changed_tail(q_data[V4L2_M2M_DST], cb.e)]
    /\ ctx' = IF cb.e.color_space # "UNKNOWN"
              THEN color_mmal2v4l(ctx, cb.e.encoding, cb.e.color_space)
              ELSE ctx
    /\ evt' = cb.e.crop_height
    /\ cb' = NoCb
    /\ last' = [op |-> "fmt_changed", type |-> V4L2_M2M_DST, ret |-> 0,
                req |-> <<>>, repeat |-> FALSE, old |-> <<>>,
                trace |-> NoTrace, out |-> <<>>]
    /\ UNCHANGED <<geom, devVars, hdr, vb, rdy, with_vpu, frame_cmplt, th,
                   component_enabled, eos_buffer, eos, jobVars>>

\* a client call on the capture queue: the device mutex does not hold the
\* handler off, so the call may fall between its stores; one call at most
\* is followed while the handler is under way
RaceSFmt(f0, ok) ==
    /\ cb.pc = "mid" => last.op = "fmt_changed_begin"
    /\ SFmt(V4L2_M2M_DST, f0, ok)

RaceGFmt ==
    /\ cb.pc = "mid" => last.op = "fmt_changed_begin"
    /\ GFmt(V4L2_M2M_DST)

RaceSSelection(rect, ok) ==
    /\ cb.pc = "mid" => last.op = "fmt_changed_begin"
    /\ SSelection(V4L2_M2M_DST, "COMPOSE", rect, ok)

\* the decoder with its input queue streaming and no capture buffers yet
RaceInit ==
    /\ geom = GeomEval(DECODE, 1, DEFAULT_WIDTH, DEFAULT_HEIGHT, 0)
    /\ hdr = NoHdr
    /\ NoExchange
    /\ Opened(DECODE)
    /\ component = TRUE
    /\ busy = [d \in QTypes |-> d = V4L2_M2M_SRC]
    /\ streaming = [d \in QTypes |-> d = V4L2_M2M_SRC]
    /\ port = [d \in QTypes |->
                 [new_port(DECODE, q_data[d]) EXCEPT
                     !.enabled = TRUE,
                     !.num = IF d = V4L2_M2M_SRC THEN NumBufs + 1
                             ELSE PortMinNum]]

RaceNext ==
    \/ \E e \in FmtEvents : FmtChangedBegin(e)
    \/ FmtChangedEnd
    \/ \E f \in CfgRequests(role, V4L2_M2M_DST), ok \in PushResults :
           RaceSFmt(f, ok)
    \/ RaceGFmt
    \/ \E r \in SelRects, ok \in BOOLEAN : RaceSSelection(r, ok)

SpecRace == RaceInit /\ [][RaceNext]_vars

(* ---------------------------------------------------------------------- *)
(* SpecField: the field of a buffer through submit and return              *)
(* ---------------------------------------------------------------------- *)
InterlaceFlags == {"INTERLACED", "TOP_FIELD_FIRST"}

\* a translation that takes the interlaced flag alone for top field first
mmal_to_field_swapped(flags) ==
    IF flags \cap InterlaceFlags = {"INTERLACED"} THEN "INTERLACED_TB"
    ELSE IF flags \cap InterlaceFlags = InterlaceFlags THEN "INTERLACED_BT"
    ELSE "NONE"

\* the switch of op_buffer_cb on the interlace flags of the returned header
mmal_to_field(flags) ==
    IF flags \cap InterlaceFlags = {"INTERLACED"} THEN "INTERLACED_BT"
    ELSE IF flags \cap InterlaceFlags = InterlaceFlags THEN "INTERLACED_TB"
    ELSE "NONE"

\* no buffer returned since the last conversion
NoReturn == [flags |-> {}, field |-> "none"]

FieldInit ==
    /\ geom = GeomEval(DECODE, 1, DEFAULT_WIDTH, DEFAULT_HEIGHT, 0)
    /\ NoSession
    /\ NoExchange
    /\ \E v \in Vb2Headers, o \in HdrOverrides :
          hdr = [vb2 |-> v, field_override |-> o, mmal |-> StaleMmal,
                 converted |-> FALSE, returned |-> NoReturn]

\* device_run converts the header of the buffer it submits
FieldConvert ==
    /\ HdrConvert
    /\ hdr'.returned = NoReturn

\* the VPU returns a buffer whose header carries the interlace flags fl:
\* the flags of the submitted header, or any other combination
FieldReturn(fl) ==
    /\ hdr.converted
    /\ hdr.returned = NoReturn
    /\ hdr' = [hdr EXCEPT !.returned = [flags |-> fl,
                                        field |-> mmal_to_field(fl)]]
    /\ UNCHANGED <<geom, devVars, negVars, vb, rdy, with_vpu, frame_cmplt, th,
                   component_enabled, eos_buffer, eos, cb, jobVars>>

\* the client fills the buffer again
FieldRefill ==
    /\ hdr.returned # NoReturn
    /\ \E v \in Vb2Headers :
          hdr' = [hdr EXCEPT !.vb2 = v, !.converted = FALSE,
                             !.returned = NoReturn]
    /\ UNCHANGED <<geom, devVars, negVars, vb, rdy, with_vpu, frame_cmplt, th,
                   component_enabled, eos_buffer, eos, cb, jobVars>>

FieldNext ==
    \/ FieldConvert
    \/ \E fl \in SUBSET InterlaceFlags : FieldReturn(fl)
    \/ FieldRefill

SpecField == FieldInit /\ [][FieldNext]_vars

(* ---------------------------------------------------------------------- *)
(* SpecEos: the stop command and the end-of-stream buffer across the       *)
(* stream lifecycle                                                        *)
(* ---------------------------------------------------------------------- *)
\* most submissions of the end-of-stream buffer outstanding at a time
MaxEos == 2

\* V4L2_DEC_CMD_STOP and V4L2_ENC_CMD_STOP: the flag is tested for the log
\* line and set; without a component the command ends there; otherwise the
\* end-of-stream buffer is submitted to the input port, and a failed
\* submission is logged only (ok is the result of the submission)
cmd_stop(e, has_component, ok) ==
    [in_use |-> TRUE,
     with_vpu |-> IF has_component /\ ok THEN e.with_vpu + 1 ELSE e.with_vpu,
     warned |-> e.in_use]

\* VIDIOC_DECODER_CMD with V4L2_DEC_CMD_STOP: vidioc_try_decoder_cmd accepts
\* it on the decoder only; the device mutex serialises it with the stream
\* operations
vidioc_decoder_cmd(ok) ==
    /\ th.pc = "idle"
    /\ role = DECODE
    /\ eos.with_vpu < MaxEos
    /\ eos' = cmd_stop(eos, component, ok)
    /\ UNCHANGED <<geom, devVars, negVars, hdr, vb, rdy, with_vpu,
                   frame_cmplt, th, component_enabled, eos_buffer, cb,
                   jobVars>>

\* VIDIOC_ENCODER_CMD with V4L2_ENC_CMD_STOP, on the roles whose video
\* device keeps that ioctl
vidioc_encoder_cmd(ok) ==
    /\ th.pc = "idle"
    /\ role # DECODE
    /\ eos.with_vpu < MaxEos
    /\ eos' = cmd_stop(eos, component, ok)
    /\ UNCHANGED <<geom, devVars, negVars, hdr, vb, rdy, with_vpu,
                   frame_cmplt, th, component_enabled, eos_buffer, cb,
                   jobVars>>

\* the VPU returns the end-of-stream buffer: ip_buffer_cb recognises it,
\* clears the flag and returns before any call of vb2_buffer_done
IpEosCb ==
    /\ eos.with_vpu > 0
    /\ eos' = [eos EXCEPT !.in_use = FALSE, !.with_vpu = @ - 1]
    /\ UNCHANGED <<geom, devVars, negVars, hdr, vb, rdy, with_vpu,
                   frame_cmplt, th, component_enabled, eos_buffer, cb,
                   jobVars>>

EosInit ==
    /\ geom = GeomEval(DECODE, 1, DEFAULT_WIDTH, DEFAULT_HEIGHT, 0)
    /\ hdr = NoHdr
    /\ \E r \in ExchRoles : Opened(r)
    /\ NoComponent
    /\ NoExchange

EosNext ==
    \/ \E d \in QTypes : QueueSetup(d)
    \/ \E d \in QTypes : StartBegin(d)
    \/ \E d \in QTypes : StopBegin(d)
    \/ FlushCheck
    \/ StartTail
    \/ StreamOnDone
    \/ StopTail
    \/ StreamOffDone
    \/ \E ok \in BOOLEAN : vidioc_decoder_cmd(ok)
    \/ \E ok \in BOOLEAN : vidioc_encoder_cmd(ok)
    \/ IpEosCb

SpecEos == EosInit /\ [][EosNext]_vars

(* ---------------------------------------------------------------------- *)
(* Claims                                                                  *)
(* ---------------------------------------------------------------------- *)
GeomFmt == supported_formats[geom.fmt]

\* C9: for every catalogue format and every role, the buffer size computed
\* by get_bytesperline followed by get_sizeimage does not decrease when the
\* width and the height do not decrease (sizes compared as unsigned ints).
C9_SizeMonotonic ==
    \A w \in GeomWidths, h \in GeomHeights :
        (geom.width <= w /\ w <= max_w(geom.role) /\
         geom.height <= h /\ h <= max_h(geom.role))
        => ULe(geom.sizeimage,
               get_sizeimage(get_bytesperline(w, h, GeomFmt, geom.role),
                             w, h, GeomFmt))

\* C9 witness: a raw format resized to 1920x1080 on the decoder, with the
\* stride and size the calculator gives there.
C9_Witness ==
    /\ geom.role = DECODE /\ GeomFmt.fourcc = "YUV420"
    /\ geom.width = 1920 /\ geom.height = 1080
    /\ geom.bytesperline = 1920 /\ geom.sizeimage = 3110400

\* the size tier of a compressed format
CompTier(w, h) ==
    IF w * h > 1280 * 720 THEN DEF_COMP_BUF_SIZE_GREATER_720P
    ELSE DEF_COMP_BUF_SIZE_720P_OR_LESS

\* C10 (as claimed): for every compressed format get_sizeimage returns the
\* 768 KiB tier when width*height exceeds 1280*720 and the 512 KiB tier
\* otherwise, whatever the stride argument.
C10_AllCompressedTiered ==
    IsCompressed(GeomFmt) => geom.sizeimage_s = CompTier(geom.width, geom.height)

\* C10 (amended): that holds for every compressed format except JPEG, and
\* JPEG gets the fixed 4 MiB allocation at every resolution, both whatever
\* the stride argument.
C10_TieredExceptJpeg ==
    IsCompressed(GeomFmt) =>
        /\ geom.sizeimage_s = geom.sizeimage
        /\ IF GeomFmt.fourcc = "JPEG"
           THEN geom.sizeimage_s = DEF_COMP_BUF_SIZE_JPEG
           ELSE geom.sizeimage_s = CompTier(geom.width, geom.height)

\* C10 witness: H264 at exactly 1280x720 with a non-zero stride argument
\* gets the 512 KiB tier.
C10_Witness ==
    /\ GeomFmt.fourcc = "H264" /\ geom.width = 1280 /\ geom.height = 720
    /\ geom.stride = 4096
    /\ geom.sizeimage_s = DEF_COMP_BUF_SIZE_720P_OR_LESS

\* C7: once a format-changed event has set the crop, the stride and
\* selection_set of the capture queue, try_fmt and s_fmt with an
\* uncompressed format on that queue leave crop_height at the crop height
\* the event carried.
C7_EventCropHeightKept ==
    evt # 0 =>
        /\ q_data[V4L2_M2M_DST].selection_set
        /\ q_data[V4L2_M2M_DST].crop_height = evt

\* C7 witness: after the 1920x1080 event a set-format of 48x40 on the capture
\* queue succeeded and stored its width, and the crop height is still 1080.
C7_Witness ==
    /\ evt = 1080
    /\ last.op = "s_fmt" /\ last.type = V4L2_M2M_DST /\ last.ret = 0
    /\ q_data[V4L2_M2M_DST].crop_width = 48
    /\ q_data[V4L2_M2M_DST].height # 1088
    /\ q_data[V4L2_M2M_DST].crop_height = 1080

\* C8: a set-format repeated with the same request on the same queue, with
\* no operation in between, stores the stride and the buffer size the first
\* one stored (on the queue itself and on the capture queue it replicates to).
C8_SFmtRepeatSameGeometry ==
    last.repeat => Geometry(q_data) = last.old

\* C8 witness: on the decoder a set-format of the input queue asking for an
\* 8 MiB buffer was repeated and the queue holds that size.
C8_Witness ==
    /\ role = DECODE
    /\ last.op = "s_fmt" /\ last.type = V4L2_M2M_SRC /\ last.repeat
    /\ q_data[V4L2_M2M_SRC].sizeimage = 8388608
    /\ q_data[V4L2_M2M_SRC].crop_width = 48

\* stop_streaming on queue d has handed back the ready queue and every buffer
\* that was in flight when it disabled the port
AllReturned(d, inflight) ==
    /\ rdy[d] = <<>>
    /\ \A b \in Bufs(d) : vb[b] # "QUEUED"
    /\ \A b \in inflight : b \notin with_vpu[d] /\ vb[b] # "ACTIVE"

\* C1: when stop_streaming returns without its drain having timed out, the
\* ready queue of its direction is empty, its buffers have been handed back
\* for re-queueing, and every buffer that was in flight when the port was
\* disabled has been returned to the queue framework: none is still counted
\* in flight and none is still owned by the driver.
C1_StopReturnsAll ==
    (th.op = "stop" /\ th.pc = "ret" /\ ~th.timedout)
        => AllReturned(th.d, th.inflight)

\* C2: every client buffer is in exactly one place: it is owned by the driver
\* for the accelerator exactly when it is counted in flight on its port.
C2_ExactlyOnePlace ==
    \A b \in AllBufs : (vb[b] = "ACTIVE") <=> (b \in with_vpu[QueueOf(b)])

\* C3: when the drain wait of start_streaming or stop_streaming has returned
\* on a completion rather than on the timeout, no buffer is in flight on the
\* drained port while the steps after the drain run.
C3_DrainWokenMeansEmpty ==
    (th.pc = "tail" /\ th.woken) => with_vpu[th.d] = {}

\* the steps of stop_streaming that follow the drain have been executed
StopStepsDone ==
    /\ (role = DECODE /\ th.d = V4L2_M2M_DST /\ port[V4L2_M2M_SRC].enabled)
          => port[V4L2_M2M_DST].enabled
    /\ (~port[V4L2_M2M_SRC].enabled /\ ~port[V4L2_M2M_DST].enabled)
          => ~component_enabled
    /\ th.d = V4L2_M2M_SRC => eos_buffer = "cleaned"

\* C4: every stop_streaming that has begun reaches its end, whatever the
\* accelerator returns or does not return; it waits at most once, and at its
\* end, also after a timed-out drain, the output port of the decoder has been
\* enabled again while the input port is enabled, the component has been
\* disabled when both ports are disabled, and the end-of-stream buffer of
\* the input side has been released.
C4_StopTerminates ==
    /\ (th.op = "stop") ~> (th.op = "stop" /\ th.pc = "ret")
    /\ [](th.op = "stop" => th.waits <= 1)
    /\ []((th.op = "stop" /\ th.pc = "ret") => StopStepsDone)

\* C4 witness: a stop_streaming of the decoder's capture queue at its end
\* after a timed-out drain, a buffer still with the accelerator and the
\* output port enabled again.
C4_Witness ==
    /\ th.op = "stop" /\ th.pc = "ret" /\ th.timedout /\ th.waits = 1
    /\ role = DECODE /\ th.d = V4L2_M2M_DST
    /\ with_vpu[V4L2_M2M_DST] # {}
    /\ port[V4L2_M2M_SRC].enabled /\ port[V4L2_M2M_DST].enabled
    /\ component_enabled

C6_EosIffEmptyOrLast ==
    hdr.converted =>
        /\ ("EOS" \in hdr.mmal.mmal_flags)
              <=> (hdr.vb2.bytesused = 0 \/ "LAST" \in hdr.vb2.flags)
        /\ "FRAME_END" \in hdr.mmal.mmal_flags

\* C6 witness: a buffer with a payload and the LAST flag has been converted
\* and carries EOS and FRAME_END.
C6_Witness ==
    /\ hdr.converted
    /\ hdr.vb2.bytesused = 4096 /\ "LAST" \in hdr.vb2.flags
    /\ "EOS" \in hdr.mmal.mmal_flags /\ "FRAME_END" \in hdr.mmal.mmal_flags

\* C11: a set-format on a queue that has buffers allocated returns -EBUSY
\* and leaves the queue state of both directions, the session colorimetry
\* and both ports exactly as they were.
C11_BusySFmtNoEffect ==
    [][(last'.op = "s_fmt" /\ busy[last'.type])
          => (last'.ret = -EBUSY /\ UNCHANGED <<q_data, ctx, port>>)]_vars

\* C11 witness: a 48x40 set-format with SRGB colorimetry on a queue with
\* buffers and a component was answered with -EBUSY, and the queue is still
\* at the geometry and colorimetry the session opened with.
C11_Witness ==
    /\ last.op = "s_fmt" /\ last.ret = -EBUSY
    /\ busy[last.type] /\ component
    /\ last.req.width = 48 /\ last.req.colorspace = "SRGB"
    /\ q_data[last.type].crop_width = DEFAULT_WIDTH
    /\ ctx = open_ctx

\* stride, height, crop, field and size of a queue state
QueueGeometry(q) ==
    <<q.bytesperline, q.height, q.crop_width, q.crop_height, q.field,
      q.sizeimage>>

\* C12: no set-format on either queue and no set-selection changes the
\* stride, height, crop, field or size of a queue that is streaming.
C12_NoConfigWriteWhileStreaming ==
    [][last'.op \in {"s_fmt", "s_selection"}
          => \A d \in QTypes :
                streaming[d]
                    => QueueGeometry(q_data'[d]) = QueueGeometry(q_data[d])]_vars

\* C18 (as claimed): while only format negotiation on the capture queue has
\* followed a format-changed event, the capture queue state has the crop
\* width and the crop height the event carried.
C18_EventCropKept ==
    evt # 0 =>
        \E e \in FmtEvents :
            /\ e.video /\ e.crop_height = evt
            /\ q_data[V4L2_M2M_DST].crop_width = e.crop_width
            /\ q_data[V4L2_M2M_DST].crop_height = e.crop_height

\* C18 (amended): a set-format with an uncompressed format on the capture
\* queue that follows a format-changed event keeps the crop height of the
\* event and stores the width of the tried request as the crop width.
C18_EventCropHeightOnly ==
    (evt # 0 /\ last.op = "s_fmt" /\ last.type = V4L2_M2M_DST
       /\ last.ret # -EBUSY) =>
        /\ q_data[V4L2_M2M_DST].crop_height = evt
        /\ q_data[V4L2_M2M_DST].crop_width =
              try_fmt_vid(role, ctx, V4L2_M2M_DST, last.req).width

\* C18 witness: on the decoder the 1920x1080 event was followed by a
\* set-format of 48x40 on the capture queue; the crop height is still 1080
\* and the crop width is the width of the request, not the 1920 of the event.
C18_Witness ==
    /\ role = DECODE /\ evt = 1080
    /\ last.op = "s_fmt" /\ last.type = V4L2_M2M_DST /\ last.ret # -EBUSY
    /\ last.req.width = 48
    /\ q_data[V4L2_M2M_DST].selection_set
    /\ q_data[V4L2_M2M_DST].crop_height = 1080
    /\ q_data[V4L2_M2M_DST].crop_width = 48

\* C13: a run of the session that finds the abort flag set submits no
\* buffer to the accelerator.
C13_AbortObservedBeforeSubmit ==
    (job.op = "run" /\ job.aborting) => job.submitted = {}

\* C14: a step that takes buffers off a ready queue takes exactly the head
\* of a queue that is streaming; no step puts more than one buffer per
\* direction in flight, and only that head; and every run, also one that
\* finds no buffer or whose submission fails, reports the job finished
\* exactly once.
C14_RunAtMostOnePerQueue ==
    [][/\ \A d \in QTypes :
             (rdy'[d] # rdy[d] /\ Len(rdy'[d]) <= Len(rdy[d]))
                 => (streaming[d] /\ rdy'[d] = Tail(rdy[d]))
       /\ \A d \in QTypes :
             (with_vpu'[d] \ with_vpu[d]) \subseteq
                 (IF streaming[d] /\ rdy[d] # <<>> THEN {Head(rdy[d])} ELSE {})
       /\ (job'.op = "run" /\ job' # job) => job'.finished = 1]_vars

\* C14 witness: a run took the head of both ready queues, left the second
\* input buffer on its queue, failed to submit the output buffer and
\* reported the job finished once.
C14_Witness ==
    /\ job.op = "run" /\ job.finished = 1
    /\ job.taken[1] # 0 /\ job.taken[2] # 0
    /\ job.taken[2] \in job.failed
    /\ job.taken[1] \in with_vpu[V4L2_M2M_SRC]
    /\ Len(rdy[V4L2_M2M_SRC]) = 1

\* C15: the configuration thread is never in the drain wait while it holds
\* the device mutex.
C15_NoWaitUnderMutex == ~(th.pc = "wait" /\ dev_mutex = "held")

\* C16: a buffer whose submission failed in the last run is back with the
\* queue framework in the error state.
C16_FailedSubmitReturnedInError ==
    job.op = "run" => \A b \in job.failed : vb[b] = "ERROR"

\* C17: an event message that a callback does not recognise completes no
\* buffer and increments no buffer counter.
C17_UnknownEventIgnored ==
    job.op \in {"ip_event", "op_event"} => (job.counted = 0 /\ job.done = 0)

\* C20: when a stop_streaming ends with both ports disabled the component
\* is disabled, and in every state with a port enabled the component is
\* enabled.
C20_ComponentFollowsPorts ==
    /\ (th.op = "stop" /\ th.pc = "ret"
          /\ ~port[V4L2_M2M_SRC].enabled /\ ~port[V4L2_M2M_DST].enabled)
          => ~component_enabled
    /\ (port[V4L2_M2M_SRC].enabled \/ port[V4L2_M2M_DST].enabled)
          => component_enabled

\* C20 witness: the stop of the last streaming queue of the encoder ended
\* with both ports disabled and the component disabled.
C20_Witness ==
    /\ role = ENCODE /\ th.op = "stop" /\ th.pc = "ret"
    /\ th.d = V4L2_M2M_DST /\ ~streaming[V4L2_M2M_SRC]
    /\ ~port[V4L2_M2M_SRC].enabled /\ ~port[V4L2_M2M_DST].enabled
    /\ ~component_enabled /\ eos_buffer = "cleaned"

\* C19: on the decoder, whenever no stream operation is under way, the
\* output port is enabled if the input port is enabled.
C19_DecodeOutputFollowsInput ==
    (role = DECODE /\ th.pc = "idle" /\ port[V4L2_M2M_SRC].enabled)
        => port[V4L2_M2M_DST].enabled

\* C19 witness: with the input queue streaming and the capture queue never
\* started, a set-format on the capture queue has reconfigured the enabled
\* output port, and both ports are enabled.
C19_Witness ==
    /\ role = DECODE /\ th.pc = "idle"
    /\ streaming[V4L2_M2M_SRC] /\ ~busy[V4L2_M2M_DST]
    /\ last.op = "s_fmt" /\ last.type = V4L2_M2M_DST /\ last.ret = 0
    /\ port[V4L2_M2M_DST].es.crop_width = 48
    /\ port[V4L2_M2M_SRC].enabled /\ port[V4L2_M2M_DST].enabled

\* C21: when start_streaming(count) returns, the buffer count of the port is
\* at least max(count, port minimum) + 1; the port format was pushed again
\* exactly when the count was raised, and a count that was large enough is
\* the count the port had when start_streaming was entered.
C21_StartReservesEosSlot ==
    (th.op = "start" /\ th.pc = "ret") =>
        /\ port[th.d].num >=
              (IF th.count < PortMinNum THEN PortMinNum ELSE th.count) + 1
        /\ th.pushed <=> port[th.d].num # th.num_before
        /\ ~th.pushed => port[th.d].num = th.num_before

\* a restart with no buffer queued raised the count from the port minimum,
\* and the state after a start that found the count large enough
C21_Witness ==
    /\ th.op = "start"
    /\ th.pc = "ret"
    /\ th.count = 0
    /\ th.num_before = PortMinNum
    /\ th.pushed
    /\ port[th.d].num = PortMinNum + 1

QueueSizes(q) == <<q.height, q.bytesperline, q.sizeimage>>

\* C23: geometry is mirrored only from the input side. On the decoder and
\* the image encoder a set-format on the input queue with a compressed
\* format and a non-zero width and height copies crop width and crop height
\* onto the capture queue state, with the height aligned up to 16 and the
\* stride and size recomputed for the capture format; a set-format on the
\* capture queue in any role, or on any queue in the other roles, stores the
\* height, stride and size of the try phase and leaves the other queue state
\* unchanged.
C23_MirrorOnlyFromInput ==
    [][(last'.op = "s_fmt" /\ last'.ret # -EBUSY) =>
          \E d \in {last'.type} :
          \E f \in {try_fmt_vid(role, ctx, d, last'.req)} :
          \E fmt_dst \in {supported_formats[q_data[V4L2_M2M_DST].fmt]} :
              /\ ( /\ d = V4L2_M2M_SRC
                   /\ role \in {DECODE, ENCODE_IMAGE}
                   /\ IsCompressed(supported_formats[q_data'[d].fmt])
                   /\ f.width # 0
                   /\ f.height # 0 ) =>
                     /\ q_data'[V4L2_M2M_DST].crop_width = q_data'[d].crop_width
                     /\ q_data'[V4L2_M2M_DST].crop_height = q_data'[d].crop_height
                     /\ q_data'[V4L2_M2M_DST].height =
                            ALIGN(q_data'[d].crop_height, 16)
                     /\ q_data'[V4L2_M2M_DST].bytesperline =
                            get_bytesperline(f.width, f.height, fmt_dst, role)
                     /\ q_data'[V4L2_M2M_DST].sizeimage =
                            get_sizeimage(q_data'[V4L2_M2M_DST].bytesperline,
                                          q_data'[V4L2_M2M_DST].crop_width,
                                          q_data'[V4L2_M2M_DST].height, fmt_dst)
              /\ (d = V4L2_M2M_DST \/ role \notin {DECODE, ENCODE_IMAGE}) =>
                     /\ QueueSizes(q_data'[d]) =
                            <<f.height, f.bytesperline, f.sizeimage>>
                     /\ q_data'[1 - d] = q_data[1 - d]]_vars

\* C24: on the decoder a set-selection on the compose target clips the
\* requested rectangle to the current crop rectangle: the stored and returned
\* width is min(requested width, crop_width), the height is
\* min(requested height, crop_height), the origin is (0,0), and
\* selection_set becomes true.
C24_ComposeClipsToCrop ==
    [][(/\ last'.op = "s_selection"
        /\ role = DECODE
        /\ last'.type = V4L2_M2M_DST
        /\ last'.req[1] = "COMPOSE") =>
          /\ last'.out =
                <<0, 0,
                  UMin(last'.req[2], q_data[V4L2_M2M_DST].crop_width),
                  UMin(last'.req[3], q_data[V4L2_M2M_DST].crop_height)>>
          /\ q_data'[V4L2_M2M_DST].crop_width = last'.out[3]
          /\ q_data'[V4L2_M2M_DST].crop_height = last'.out[4]
          /\ q_data'[V4L2_M2M_DST].selection_set]_vars

\* the buffer rectangle of a queue: the crop bounds vidioc_g_selection
\* reports on the encoders
BufferRect(q) == <<q.bytesperline, q.height>>

\* C25: on the encoder and the image encoder a set-selection on the crop
\* target stores the requested rectangle clipped to the buffer rectangle and
\* anchored at the origin, whatever crop was set before, and a crop query
\* returns the stored rectangle.
C25_CropClipsToBuffer ==
    [][(/\ role \in {ENCODE, ENCODE_IMAGE}
        /\ last'.type = V4L2_M2M_SRC
        /\ last'.op \in {"s_selection", "g_selection"}
        /\ last'.req[1] = "CROP") =>
          /\ last'.out = <<0, 0, q_data'[V4L2_M2M_SRC].crop_width,
                           q_data'[V4L2_M2M_SRC].crop_height>>
          /\ last'.op = "s_selection" =>
                /\ q_data'[V4L2_M2M_SRC].crop_width =
                      UMin(last'.req[2], BufferRect(q_data[V4L2_M2M_SRC])[1])
                /\ q_data'[V4L2_M2M_SRC].crop_height =
                      UMin(last'.req[3], BufferRect(q_data[V4L2_M2M_SRC])[2])]_vars

\* C26: every call of the input callback that is not for the EOS buffer
\* returns one buffer the driver owns to the client queue, once: in the
\* error state when the transfer status is an error, else as done when the
\* port is enabled and as re-queued when it is disabled; the input-buffer
\* counter is incremented once for a buffer returned without error and not
\* otherwise.
C26_InputReturnedOnce ==
    [][(job' # job /\ job'.op \in {"ip_buffer", "ip_event"}) =>
          /\ job'.op = "ip_buffer"
          /\ vb[job'.buf] = "ACTIVE"
          /\ vb'[job'.buf] =
                (IF job'.kind = "error" THEN "ERROR"
                 ELSE IF port[V4L2_M2M_SRC].enabled THEN "DONE"
                 ELSE "REQUEUED")
          /\ job'.state = vb'[job'.buf]
          /\ \A c \in AllBufs \ {job'.buf} : vb'[c] = vb[c]
          /\ job'.counted = (IF job'.kind = "error" THEN 0 ELSE 1)]_vars

\* C27: a return callback that handed a buffer back on one of its
\* returning branches (the input path's return, the output path's normal
\* return and its empty-buffer return while disabled) signals the drain
\* completion exactly when the port is disabled and still has buffers in
\* flight; a signal is never raised while the port is enabled, and never
\* without a buffer having been handed back.
C27_SignalWhenDisabledAndInFlight ==
    [][(job' # job /\ job'.op \in {"ip_buffer", "op_buffer"}) =>
          \E d \in {QueueOf(job'.buf)} :
              /\ frame_cmplt' = frame_cmplt + (IF job'.signalled THEN 1 ELSE 0)
              /\ job'.signalled =>
                    /\ ~port[d].enabled
                    /\ with_vpu'[d] # {}
                    /\ job'.state # "none"
              /\ ( /\ job'.kind # "error"
                   /\ job'.state # "none"
                   /\ ~port[d].enabled
                   /\ with_vpu'[d] # {} ) => job'.signalled]_vars

C27_Witness ==
    /\ th.op = "stop" /\ th.pc = "wait" /\ th.d = V4L2_M2M_DST
    /\ ~port[V4L2_M2M_DST].enabled
    /\ job.op = "op_buffer" /\ job.kind = "empty"
    /\ job.state = "REQUEUED" /\ vb[job.buf] = "REQUEUED"
    /\ job.signalled
    /\ frame_cmplt = 1
    /\ with_vpu[V4L2_M2M_DST] # {}

\* C28: an output buffer that comes back empty without the end-of-stream
\* flag is never delivered as done: with the port disabled it goes back to
\* the client queue as re-queued, with the port enabled it is submitted to
\* the output port again and the client queue is not touched; the
\* output-buffer counter, the timestamp, the field and the flags of the
\* buffer are not written.
C28_EmptyBufferNotDelivered ==
    [][(job' # job /\ job'.op = "op_buffer" /\ job'.kind = "empty") =>
          /\ job'.state # "DONE"
          /\ vb[job'.buf] = "ACTIVE" => vb'[job'.buf] # "DONE"
          /\ ~port[V4L2_M2M_DST].enabled =>
                /\ job'.state = "REQUEUED"
                /\ ~job'.resubmitted
                /\ vb[job'.buf] = "ACTIVE" => vb'[job'.buf] = "REQUEUED"
                /\ job'.buf \notin with_vpu'[V4L2_M2M_DST]
          /\ port[V4L2_M2M_DST].enabled =>
                /\ job'.state = "none"
                /\ job'.resubmitted
                /\ vb' = vb
                /\ frame_cmplt' = frame_cmplt
          /\ job'.counted = 0
          /\ job'.flags = {}
          /\ job'.wrote = {}
          /\ job'.eos_event = 0
          /\ hdr' = hdr]_vars

C28_Witness ==
    /\ job.op = "op_buffer" /\ job.kind = "empty"
    /\ port[V4L2_M2M_DST].enabled
    /\ job.resubmitted /\ job.state = "none"
    /\ job.buf \in with_vpu[V4L2_M2M_DST]
    /\ vb[job.buf] = "ACTIVE"

\* C29: for every output buffer the VPU returns with the end-of-stream
\* flag, with or without payload, the output callback raises exactly one
\* end-of-stream event, sets the 'last' flag of the buffer and returns the
\* buffer to the client; a buffer returned without that flag raises no
\* end-of-stream event.
C29_EosRaisesOneEvent ==
    [][(job' # job /\ job'.op = "op_buffer") =>
          /\ job'.kind \in {"eos", "eos_data"} =>
                /\ job'.eos_event = 1
                /\ "LAST" \in job'.flags
                /\ job'.state = "DONE"
                /\ vb[job'.buf] = "ACTIVE" => vb'[job'.buf] = "DONE"
                /\ job'.buf \notin with_vpu'[V4L2_M2M_DST]
          /\ job'.kind \in {"empty", "data", "corrupted"} =>
                /\ job'.eos_event = 0
                /\ "LAST" \notin job'.flags]_vars

C29_Witness ==
    /\ job.op = "op_buffer" /\ job.kind = "eos"
    /\ job.eos_event = 1 /\ job.flags = {"LAST"}
    /\ vb[job.buf] = "DONE"
    /\ job.buf \notin with_vpu[V4L2_M2M_DST]

\* C30: the in-use flag of the end-of-stream buffer is true exactly while
\* the buffer is in flight to the VPU: set when a stop command submits it,
\* cleared when the input callback sees it return.
C30_InUseWhileInFlight == eos.in_use <=> eos.with_vpu > 0

\* C31: with no field override, for every client field in {none,
\* interlaced bottom first, interlaced top first} the interlace flags that
\* the submit puts in the MMAL header are translated back by the output
\* callback to the same field; top field first without interlaced is
\* translated to none.
C31_FieldRoundTrip ==
    hdr.returned # NoReturn =>
        /\ ( /\ hdr.field_override = "ANY"
             /\ hdr.vb2.field \in {"NONE", "INTERLACED_BT", "INTERLACED_TB"}
             /\ hdr.returned.flags = hdr.mmal.mmal_flags \cap InterlaceFlags )
              => hdr.returned.field = hdr.vb2.field
        /\ hdr.returned.flags = {"TOP_FIELD_FIRST"}
              => hdr.returned.field = "NONE"

C31_Witness ==
    /\ hdr.returned # NoReturn
    /\ hdr.field_override = "ANY"
    /\ hdr.vb2.field = "INTERLACED_BT"
    /\ hdr.mmal.mmal_flags \cap InterlaceFlags = {"INTERLACED"}
    /\ hdr.returned.flags = {"INTERLACED"}
    /\ hdr.returned.field = "INTERLACED_BT"

\* C32: a try-format call on either queue, whatever the request and
\* whether or not the queue is busy, leaves both queue states, the session
\* colorimetry, the abort flag, the counters and the ports unchanged.
C32_TryHasNoSideEffects ==
    [][(last' # last /\ last'.op = "try_fmt") =>
          /\ q_data' = q_data
          /\ ctx' = ctx
          /\ aborting' = aborting
          /\ port' = port
          /\ evt' = evt
          /\ UNCHANGED <<role, component, busy, streaming>>
          /\ UNCHANGED <<vb, rdy, with_vpu, frame_cmplt, component_enabled,
                         eos_buffer, eos, cb>>]_vars

C32_Witness ==
    /\ last.op = "try_fmt" /\ last.type = V4L2_M2M_DST
    /\ busy[V4L2_M2M_DST]
    /\ last.req.height = 40
    /\ last.out[1].height # q_data[V4L2_M2M_DST].height
    /\ last.out[1].bytesperline # q_data[V4L2_M2M_DST].bytesperline

\* x is a multiple of the alignment a (the catalogue gives compressed
\* formats an alignment of zero, whose only multiple is zero)
IsMultipleOf(x, a) == IF a = 0 THEN x = 0 ELSE x % a = 0

\* the catalogue entry of the format a try phase settled on
TriedFmt(r, d, f) == supported_formats[find_format(f.pixelformat, r, d)]

\* C33: after the try phase, for every request, width and height are within
\* the device bounds; for a raw format both are at least 32, and the height
\* is a multiple of 16 on the decoder and the image encoder; the stride is
\* at least the minimum stride of the resulting width and height and a
\* multiple of the format's stride alignment for the role; the size equals
\* the computed minimum for a raw format and is at least the computed
\* minimum for a compressed one.
C33_TryResultWithinLimits ==
    last.op = "try_fmt" =>
        \E f \in {last.out[1]} : \E fmt \in {TriedFmt(role, last.type, f)} :
            /\ ~ULt(max_w(role), f.width)
            /\ ~ULt(max_h(role), f.height)
            /\ ~IsCompressed(fmt) =>
                  /\ ~ULt(f.width, MIN_W)
                  /\ ~ULt(f.height, MIN_H)
                  /\ role \in {DECODE, ENCODE_IMAGE} => f.height % 16 = 0
            /\ ~ULt(f.bytesperline,
                    get_bytesperline(f.width, f.height, fmt, role))
            /\ IsMultipleOf(f.bytesperline, fmt.bytesperline_align[role + 1])
            /\ ~IsCompressed(fmt) =>
                  f.sizeimage = get_sizeimage(f.bytesperline, f.width,
                                              f.height, fmt)
            /\ IsCompressed(fmt) =>
                  ~ULt(f.sizeimage, get_sizeimage(f.bytesperline, f.width,
                                                  f.height, fmt))

\* C34: the end-of-stream buffer is submitted only while it is allocated,
\* that is between the start-streaming of the input queue that initialised
\* it and the stop-streaming that releases it, and stop-streaming does not
\* release it while a submission is outstanding.
C34_EosSubmittedWhileAllocated ==
    [][/\ eos'.with_vpu > eos.with_vpu => eos_buffer = "init"
       /\ (eos_buffer = "init" /\ eos_buffer' = "cleaned")
             => eos.with_vpu = 0]_vars

\* the geometry of a queue state, and the part of it a get-format shows
RaceGeom(q) ==
    <<q.bytesperline, q.height, q.crop_width, q.crop_height, q.sizeimage>>

SeenGeom(f) == <<f.bytesperline, f.height, f.width, f.sizeimage>>

\* the capture queue state a set-format or a set-selection leaves when it
\* runs alone on the queue states qd
AloneSFmt(qd, f0) ==
    s_fmt_queues(role, V4L2_M2M_DST, qd,
                 s_fmt_q_data(role, V4L2_M2M_DST, qd[V4L2_M2M_DST],
                              try_fmt_vid(role, ctx, V4L2_M2M_DST, f0),
                              f0.height),
                 try_fmt_vid(role, ctx, V4L2_M2M_DST, f0))[V4L2_M2M_DST]

AloneSSelection(q, req) ==
    [q EXCEPT !.crop_width = s_selection_rect(q, req[2], req[3])[1],
              !.crop_height = s_selection_rect(q, req[2], req[3])[2],
              !.selection_set = TRUE]

\* the capture queue states the event e and the client call recorded in l
\* leave when one runs after the other, in either order, from qd
OneAfterTheOther(qd, e, l) ==
    LET ev(q) == handle_fmt_changed(role, q, e)
        q0 == qd[V4L2_M2M_DST]
    IN  IF l.op = "s_fmt"
        THEN {ev(AloneSFmt(qd, l.req)),
              AloneSFmt([qd EXCEPT ![V4L2_M2M_DST] = ev(q0)], l.req)}
        ELSE IF l.op = "s_selection"
        THEN {ev(AloneSSelection(q0, l.req)),
              AloneSSelection(ev(q0), l.req)}
        ELSE {ev(q0)}

\* C35: a format-changed event handled while the client sets or reads the
\* format or the selection of the capture queue does not tear the queue
\* state: a get-format shows the stride, height, crop width and size of
\* the state before the event or of the state after it, and when the
\* handler ends the stride, height, crop and size left are those the event
\* and the client call leave when one runs after the other.
C35_NoTornQueueState ==
    [][/\ (cb.pc = "mid" /\ last' # last /\ last'.op = "g_fmt") =>
             SeenGeom(last'.out[1]) \in
                 {SeenGeom(vidioc_g_fmt(cb.q0[V4L2_M2M_DST], ctx)),
                  SeenGeom(vidioc_g_fmt(
                      handle_fmt_changed(role, cb.q0[V4L2_M2M_DST], cb.e),
                      ctx))}
       /\ (cb.pc = "mid" /\ cb'.pc = "idle") =>
             RaceGeom(q_data'[V4L2_M2M_DST]) \in
                 {RaceGeom(q) : q \in OneAfterTheOther(cb.q0, cb.e, last)}]_vars

\* C36: the drain wait of stop_streaming does not end on the timeout once
\* every buffer that was in flight at the port disable has been returned
\* through the callback: a wait that ends on the timeout still has a buffer
\* with the accelerator, also when exactly one buffer was in flight.
C36_NoSpuriousDrainTimeout ==
    [][(th.op = "stop" /\ th.pc = "wait" /\ th'.pc = "tail" /\ th'.timedout)
          => with_vpu[th.d] # {}]_vars

\* the buffer width in pixels that the stride of a queue holds, as
\* vidioc_g_selection derives it for the crop bounds
stride_width(q) ==
    UDiv(mul32(q.bytesperline, 8), supported_formats[q.fmt].depth)

CropInside(q) ==
    /\ ~ULt(q.height, q.crop_height)
    /\ ~IsCompressed(supported_formats[q.fmt]) => ~ULt(stride_width(q), q.crop_width)

\* C37: in every queue state the crop rectangle lies inside the buffer
\* rectangle: crop_height is at most height, and on an uncompressed queue
\* crop_width is at most the width the stride holds.
C37_CropInsideBuffer ==
    \A d \in QTypes : CropInside(q_data[d])

\* the strides the try phase accepts for an evaluation: the minimum stride
\* and the caller's own stride when it is larger and aligned
AcceptedStrides(g) ==
    {g.bytesperline} \cup
    {s \in {g.stride} :
        /\ ULt(g.bytesperline, s)
        /\ s = ALIGN(s, supported_formats[g.fmt].bytesperline_align[g.role + 1])}

\* a * b, for a 32-bit pattern a and a small natural b, is at most the
\* largest signed 32-bit integer
FitsS32(a, b) == b = 0 \/ (a >= 0 /\ a <= MaxS32 \div b)

\* the size get_sizeimage returned for stride s of evaluation g
SizeFor(g, s) == IF s = g.bytesperline THEN g.sizeimage ELSE g.sizeimage_s

\* C38: for an uncompressed format that is sized by stride, height and
\* multiplier, a width and a height within the bounds of the role and a
\* stride the try phase accepts, stride * height * multiplier fits in a
\* signed 32-bit integer and get_sizeimage returns half of it.
C38_SizeDoesNotOverflow ==
    LET fmt == supported_formats[geom.fmt]
    IN  (/\ ~IsCompressed(fmt)
         /\ fmt.fourcc # "NV12_COL128"
         /\ geom.width <= max_w(geom.role)
         /\ geom.height <= max_h(geom.role))
        => \A s \in AcceptedStrides(geom) :
              /\ FitsS32(s, geom.height * fmt.size_multiplier_x2)
              /\ SizeFor(geom, s)
                    = (s * geom.height * fmt.size_multiplier_x2) \div 2

\* a set-format on queue d with request f0 pushes a format that the
\* accelerator refuses: on the port of the queue, or on the output port when
\* the input format is replicated to it
PushFailed(d, f0, ok) ==
    /\ component
    /\ ~vb2_is_busy(busy, d)
    /\ \/ ~ok[1]
       \/ /\ ~ok[2]
          /\ update_capture_port(role,
                 s_fmt_q_data(role, d, q_data[d],
                              try_fmt_vid(role, ctx, d, f0), f0.height))

SFmtReportsFailure ==
    \A d \in QTypes : \A f \in Requests(role, d), ok \in PushResults :
        (PushFailed(d, f, ok) /\ SFmt(d, f, ok)) => last'.ret # 0

ErrorLeavesConfig ==
    (last'.op \in {"s_fmt", "s_selection"} /\ last'.ret # 0)
        => (q_data' = q_data /\ ctx' = ctx)

\* C39: a set-format returns an error whenever a push of the format to an
\* accelerator port fails, and a set-format or set-selection that returns
\* an error leaves the queue states and the colorimetry as they were.
C39_ErrorsReportedAndAtomic ==
    [][SFmtReportsFailure /\ ErrorLeavesConfig]_vars

\* C40: when no stream operation is under way and neither queue is
\* streaming, both accelerator ports are disabled and the component is
\* disabled.
C40_QuiescentWhenStopped ==
    (th.pc = "idle" /\ \A d \in QTypes : ~streaming[d])
        => /\ \A d \in QTypes : ~port[d].enabled
           /\ ~component_enabled


====
